---- MODULE Spec2Model ----
(***************************************************************************)
(* Model of loop-ledger-v2: the in-memory ledger cache of                  *)
(* src/src/lib/storage.ts (subscriber registry, three caches, refreshAll   *)
(* and the CRUD calls), the external store it talks to, and the page       *)
(* handlers that drive it (Home, Insights, Loops).                         *)
(*                                                                         *)
(* Every storage call is an async function: it runs synchronously up to an *)
(* await, the awaited request is processed by the store at some later      *)
(* moment, and the continuation runs when the response is delivered.  A    *)
(* call in flight is an entry of `calls`; each await is two steps: the     *)
(* store (or auth service) processes the request, then the continuation    *)
(* resumes.  Continuations of different calls interleave freely.           *)
(*                                                                         *)
(* Units: miles are whole miles, money is whole cents (mileage rate 0.67   *)
(* dollars per mile is 67).                                                *)
(***************************************************************************)
EXTENDS Integers, Sequences, FiniteSets, TLC

(* ------------------------------ bounds -------------------------------- *)

\* loop ids are 1..MaxLoopId, expense ids 1..MaxExpenseId
MaxLoopId == 3
MaxExpenseId == 2
\* calendar dates are 1..MaxDate
MaxDate == 2
\* the mileage collaborator returns a round trip of 0..MaxMiles miles
MaxMiles == 2
\* storage calls in flight at once, and calls started in one behaviour
MaxTasks == 2
MaxCalls == 2
\* pages mounted and Loops handlers run in one behaviour of the application
MaxMounts == 2
MaxActs == 1

LoopIds == 1..MaxLoopId
ExpenseIds == 1..MaxExpenseId
Dates == 1..MaxDate
Tasks == 1..MaxTasks

(* --------------------------- values ----------------------------------- *)

\* JavaScript null / undefined, SQL NULL, "no row"
Null == [null |-> TRUE]
\* a numeric column or field holding null / undefined / NaN; the numbers of
\* the model are whole miles and whole dollars in cents, never -1
NaN == 0 - 1

\* the signed-in user
UserId == "u1"

\* settingsFromDb / settingsToDb / onSave: the default mileage rate 0.67
DefaultMileageRate == 67
\* a rate the user configured instead of the default
OtherMileageRate == 50

\* an amount the user types for an expense
ExpenseAmount == 25
\* the bag fee of a loop
BagFee == 5000

\* Number(v) || 0: NaN and 0 give 0, every other number is kept as it is
NumberOr0(v) == IF v = NaN THEN 0 ELSE v

\* a key the object does not have: undefined
Undefined == [undefined |-> TRUE]
\* r[key]
Get(r, key) == IF key \in DOMAIN r THEN r[key] ELSE Undefined
\* r[key] where a number is read: Number(undefined) is NaN
Column(r, key) == IF key \in DOMAIN r THEN r[key] ELSE NaN
\* a number of a JSON record, and a text as its characters ("" is Str(<<>>))
Num(n) == [num |-> n]
Str(chars) == [str |-> chars]
\* a ?? b
Coalesce(a, b) == IF a \in {Null, Undefined} THEN b ELSE a
\* a || null for a text
OrNull(a) == IF a \in {Null, Undefined, Str(<<>>)} THEN Null ELSE a

(* ------------------- DB row <-> app object conversions ---------------- *)

loopFromDb(r) ==
    [id |-> r.id,
     userId |-> Get(r, "user_id"),
     date |-> r.date,
     loopType |-> Coalesce(Get(r, "loop_type"), Str(<<>>)),
     bagFee |-> NumberOr0(Column(r, "bag_fee")),
     cashTip |-> NumberOr0(Column(r, "cash_tip")),
     digitalTip |-> NumberOr0(Column(r, "digital_tip")),
     preGrat |-> NumberOr0(Column(r, "pre_grat")),
     mileage_miles |-> NumberOr0(Column(r, "mileage_miles")),
     mileage_cost |-> NumberOr0(Column(r, "mileage_cost")),
     reportTime |-> Coalesce(Get(r, "report_time"), Str(<<>>)),
     teeTime |-> Coalesce(Get(r, "tee_time"), Str(<<>>)),
     endTime |-> Coalesce(Get(r, "end_time"), Str(<<>>))]

loopToDb(userId, loop) ==
    [id |-> loop.id,
     user_id |-> userId,
     date |-> loop.date,
     loop_type |-> OrNull(Get(loop, "loopType")),
     bag_fee |-> NumberOr0(Column(loop, "bagFee")),
     cash_tip |-> NumberOr0(Column(loop, "cashTip")),
     digital_tip |-> NumberOr0(Column(loop, "digitalTip")),
     pre_grat |-> NumberOr0(Column(loop, "preGrat")),
     mileage_miles |-> NumberOr0(loop.mileage_miles),
     mileage_cost |-> NumberOr0(loop.mileage_cost),
     report_time |-> OrNull(Get(loop, "reportTime")),
     tee_time |-> OrNull(Get(loop, "teeTime")),
     end_time |-> OrNull(Get(loop, "endTime"))]

expenseFromDb(r) ==
    [id |-> r.id,
     userId |-> Get(r, "user_id"),
     date |-> r.date,
     category |-> Get(r, "category"),
     amount |-> NumberOr0(Column(r, "amount")),
     notes |-> Coalesce(Get(r, "notes"), Str(<<>>))]

expenseToDb(userId, e) ==
    [id |-> e.id,
     user_id |-> userId,
     date |-> e.date,
     category |-> Get(e, "category"),
     amount |-> NumberOr0(e.amount),
     notes |-> OrNull(Get(e, "notes"))]

\* Number(r.mileage_rate) || 0.67
\* r.col === null || r.col === undefined ? null : Number(r.col)
NumberOrNull(r, col) == IF Column(r, col) = NaN THEN Null ELSE Num(r[col])

settingsFromDb(r) ==
    [userId |-> r.user_id,
     mileageRate |-> IF NumberOr0(r.mileage_rate) = 0
                     THEN DefaultMileageRate ELSE r.mileage_rate,
     defaultBagFeeSingle |-> NumberOrNull(r, "default_bag_fee_single"),
     defaultBagFeeDouble |-> NumberOrNull(r, "default_bag_fee_double"),
     defaultBagFeeForecaddie |-> NumberOrNull(r, "default_bag_fee_forecaddie")]

\* s?.key === null || s?.key === undefined || s?.key === "" ? null
\*   : Number(s.key)    (a NULL column is NaN here)
NullOrNumber(s, key) ==
    IF s = Null \/ Get(s, key) \in {Null, Undefined, Str(<<>>)} THEN NaN
    ELSE s[key].num

settingsToDb(userId, s) ==
    [user_id |-> userId,
     mileage_rate |-> IF s = Null \/ NumberOr0(s.mileageRate) = 0
                      THEN DefaultMileageRate ELSE s.mileageRate,
     default_bag_fee_single |-> NullOrNumber(s, "defaultBagFeeSingle"),
     default_bag_fee_double |-> NullOrNumber(s, "defaultBagFeeDouble"),
     default_bag_fee_forecaddie |-> NullOrNumber(s, "defaultBagFeeForecaddie")]

(* ------------------------- sequence helpers --------------------------- *)

\* Array.prototype.map
RECURSIVE Map(_, _)
Map(F(_), s) == IF s = <<>> THEN <<>> ELSE <<F(Head(s))>> \o Map(F, Tail(s))

\* Array.prototype.filter((x) => x.id !== id)
RECURSIVE WithoutId(_, _)
WithoutId(s, id) ==
    IF s = <<>> THEN <<>>
    ELSE IF Head(s).id = id THEN WithoutId(Tail(s), id)
         ELSE <<Head(s)>> \o WithoutId(Tail(s), id)

Ids(s) == {s[i].id : i \in DOMAIN s}
Range(s) == {s[i] : i \in DOMAIN s}
Count(s, id) == Cardinality({i \in DOMAIN s : s[i].id = id})

(* ------------------------- the external store ------------------------- *)
(* Tables ll_loops and ll_expenses are functions id -> row or Null;        *)
(* ll_user_settings holds the user's row or Null.                          *)

Rows(table) == {table[k] : k \in {k \in DOMAIN table : table[k] # Null}}

\* .select("*").eq("user_id", userId).order("date", { ascending: false }):
\* every row, latest date first; rows of equal date come in any order.
SelectOrderedByDateDesc(table) ==
    LET rows == Rows(table)
        n == Cardinality(rows)
    IN {s \in [1..n -> rows] :
          /\ \A i, j \in 1..n : i # j => s[i] # s[j]
          /\ \A i, j \in 1..n : i < j => s[i].date >= s[j].date}

\* .upsert(payload, { onConflict: "id" }).select("*").single()
Upsert(table, payload) == [table EXCEPT ![payload.id] = payload]

\* .delete().eq("id", id).eq("user_id", userId)
Delete(table, id) == [table EXCEPT ![id] = Null]

\* .update({mileage_miles, mileage_cost}).eq("id", id)...single()
UpdateMileage(table, id, miles, cost) ==
    [table EXCEPT ![id] = [table[id] EXCEPT !.mileage_miles = NumberOr0(miles),
                                             !.mileage_cost = NumberOr0(cost)]]

(* ------------------------------ state --------------------------------- *)

VARIABLES
    subs,           \* storage.ts `subs`: the registered callbacks, in insertion order
    loopsCache,     \* storage.ts `loopsCache`
    expensesCache,  \* storage.ts `expensesCache`
    settingsCache,  \* storage.ts `settingsCache`
    dbLoops,        \* store table ll_loops
    dbExpenses,     \* store table ll_expenses
    dbSettings,     \* store table ll_user_settings (the user's row)
    calls,          \* the async calls in flight, one per task
    started,        \* operations started so far by the client / the user
    mounts,         \* pages mounted so far
    called,         \* the callbacks run by the latest step, in call order
    view,           \* React state of each page: loops, expenses, settings
    page,           \* the page mounted by the router ("none" before the first)
    form,           \* Loops page: the add/edit form
    draft,          \* Expenses page: the entry form
    alerted,        \* the alert() shown by the latest step ("" when none)
    now,            \* the clock: local date and time of day
    tz,             \* the browser's time zone: local time minus UTC, in ms
    rangeKey,       \* the range selector of the page shown
    shown,          \* what the page shown rendered last: the window it
                    \* resolved, the loops and the expenses it lists and totals
    raw,            \* a persisted record, or a list of records, handed to
                    \* a normalizer or an aggregation (Null when none is)
    out             \* what the normalizer or aggregation returned for it

cacheVars == <<loopsCache, expensesCache, settingsCache>>
dbVars == <<dbLoops, dbExpenses, dbSettings>>
uiVars == <<view, page, form, draft>>
vars == <<subs, loopsCache, expensesCache, settingsCache, dbLoops, dbExpenses,
          dbSettings, calls, started, mounts, called, view, page, form, draft,
          alerted, now, tz, rangeKey, shown, raw, out>>
renderVars == <<now, tz, rangeKey, shown, raw, out>>
budget == <<started, mounts>>

Pages == {"home", "insights", "loops", "expenses"}
\* the callbacks clients register: Home's and Insights' state setters, and a
\* callback that throws
Callbacks == {"home", "insights", "faulty"}
Throws(fn) == fn = "faulty"

\* useState initial values of a page
EmptyView == [loops |-> <<>>, expenses |-> <<>>, settings |-> Null]
\* Loops page: the initial / reset form (id "" and date "" are 0), with the
\* bag-fee input's text and its `touched` flag
BlankForm ==
    [id |-> 0, date |-> 0, mileage_miles |-> 0, mileage_cost |-> 0,
     bagFeeStr |-> Str(<<>>), bagFeeTouched |-> FALSE]
\* Expenses page: the initial / cleared form (date "" is 0, amount "" is 0)
BlankDraft == [date |-> 0, amount |-> 0]

Idle == [op |-> "none", pc |-> "idle", stage |-> "", arg |-> Null, res |-> Null,
         dirty |-> FALSE, chain |-> "none", loc |-> Null, live |-> FALSE,
         alone |-> FALSE]

\* String(n) of a whole number of dollars kept in cents, and of a whole number
Decimal == <<"0", "1", "2", "3", "4", "5", "6", "7", "8", "9">>
RECURSIVE Numeral(_)
Numeral(n) ==
    IF n < 10 THEN <<Decimal[n + 1]>>
    ELSE Numeral(n \div 10) \o <<Decimal[(n % 10) + 1]>>
Dollars(cents) == Str(Numeral(cents \div 100))

\* Loops.tsx applyDefaultBagFee(loopType), run by a closure that holds
\* `bagFeeTouched`; getSettings() reads the cache `s` as it is now; f is the
\* entry form the state setter updates
applyDefaultBagFee(f, bagFeeTouched, loopType, s) ==
    IF bagFeeTouched THEN f
    ELSE LET v == IF s = Null THEN Undefined
                  ELSE IF loopType = "Single" THEN s.defaultBagFeeSingle
                  ELSE IF loopType = "Double" THEN s.defaultBagFeeDouble
                  ELSE s.defaultBagFeeForecaddie
         IN IF v \in {Null, Undefined} THEN f
            ELSE [f EXCEPT !.bagFeeStr = Str(Numeral(v.num))]

\* Loops.tsx resetForm, run by a closure that holds `bagFeeTouched`
resetForm(bagFeeTouched, s) ==
    applyDefaultBagFee(BlankForm, bagFeeTouched, "Single", s)

\* no page has rendered a filtered list: the clock, zone and selector are
\* those of one fixed session
NoRender ==
    /\ now = [y |-> 2024, m |-> 3, d |-> 10, ms |-> 0]
    /\ tz = 0
    /\ rangeKey = "MTD"
    /\ shown = Null
    /\ raw = Null
    /\ out = Null

\* a store that already holds the user's data when the session starts:
\* the oldest row was written before the mileage columns existed and holds
\* NULL there, the others carry a mileage
ReturningLoops ==
    [k \in LoopIds |->
        IF k < MaxLoopId
        THEN [id |-> k, user_id |-> UserId, date |-> ((k - 1) % MaxDate) + 1,
              bag_fee |-> BagFee, cash_tip |-> 0, digital_tip |-> 0,
              pre_grat |-> IF k = 1 THEN NaN ELSE 0,
              mileage_miles |-> IF k = 1 THEN NaN ELSE MaxMiles,
              mileage_cost |-> IF k = 1 THEN NaN
                               ELSE MaxMiles * DefaultMileageRate]
        ELSE Null]
ReturningExpenses ==
    [k \in ExpenseIds |->
        IF k < MaxExpenseId
        THEN [id |-> k, user_id |-> UserId, date |-> ((k - 1) % MaxDate) + 1,
              amount |-> 10 * k]
        ELSE Null]
ReturningSettings == [user_id |-> UserId, mileage_rate |-> OtherMileageRate]

\* module load: empty registry and caches; the store is either a new
\* account's or a returning user's
Init ==
    /\ subs = <<>>
    /\ loopsCache = <<>>
    /\ expensesCache = <<>>
    /\ settingsCache = Null
    /\ \E returning \in BOOLEAN :
         /\ dbLoops = IF returning THEN ReturningLoops ELSE [k \in LoopIds |-> Null]
         /\ dbExpenses = IF returning THEN ReturningExpenses
                         ELSE [k \in ExpenseIds |-> Null]
         /\ dbSettings = IF returning THEN ReturningSettings ELSE Null
    /\ calls = [t \in Tasks |-> Idle]
    /\ started = 0
    /\ mounts = 0
    /\ called = <<>>
    /\ view = [p \in Pages |-> EmptyView]
    /\ page = "none"
    /\ form = BlankForm
    /\ draft = BlankDraft
    /\ alerted = ""
    /\ NoRender

\* what a numeric column of a row that was not written by the entry forms
\* may hold: NULL, a negative number, zero, an amount
StoredAmounts == {NaN, 0 - ExpenseAmount, 0, ExpenseAmount}

\* module load over a store whose oldest loop and oldest expense were
\* written by another client of the store
InitImported ==
    /\ subs = <<>>
    /\ loopsCache = <<>>
    /\ expensesCache = <<>>
    /\ settingsCache = Null
    /\ \E v \in StoredAmounts :
         /\ dbLoops = [ReturningLoops EXCEPT ![1] =
                         [@ EXCEPT !.bag_fee = v, !.cash_tip = v,
                                   !.digital_tip = v, !.pre_grat = v]]
         /\ dbExpenses = [ReturningExpenses EXCEPT ![1] = [@ EXCEPT !.amount = v]]
    /\ dbSettings = ReturningSettings
    /\ calls = [t \in Tasks |-> Idle]
    /\ started = 0
    /\ mounts = 0
    /\ called = <<>>
    /\ view = [p \in Pages |-> EmptyView]
    /\ page = "none"
    /\ form = BlankForm
    /\ draft = BlankDraft
    /\ alerted = ""
    /\ NoRender

(* ------------------------- subscriber registry ------------------------ *)

\* subs.forEach((fn) => { try { fn() } catch {} }): every callback runs, in
\* insertion order; a throw is caught and the loop goes on.  `called` lists
\* the callbacks run, `threw` tells whether an exception left notify.
\* notify without the try/catch: the first throw ends the loop and leaves notify
RECURSIVE notifyNoCatch(_)
notifyNoCatch(s) ==
    IF s = <<>> THEN [called |-> <<>>, threw |-> FALSE]
    ELSE IF Throws(Head(s)) THEN [called |-> <<Head(s)>>, threw |-> TRUE]
    ELSE LET rest == notifyNoCatch(Tail(s))
         IN [called |-> <<Head(s)>> \o rest.called, threw |-> rest.threw]

\* notify that stops after the first callback
notifyFirstOnly(s) ==
    IF s = <<>> THEN [called |-> <<>>, threw |-> FALSE]
    ELSE [called |-> <<Head(s)>>, threw |-> FALSE]

RECURSIVE notify(_)
notify(s) ==
    IF s = <<>> THEN [called |-> <<>>, threw |-> FALSE]
    ELSE LET rest == notify(Tail(s))
         IN [called |-> <<Head(s)>> \o rest.called, threw |-> rest.threw]

\* the steps that do not call notify
NoNotify == [called |-> <<>>, threw |-> FALSE]

\* an array push in place of Set.prototype.add
Push(s, fn) == Append(s, fn)
\* Set.prototype.add: a callback already present keeps its place
SetAdd(s, fn) == IF fn \in Range(s) THEN s ELSE Append(s, fn)
\* Set.prototype.delete
RECURSIVE SetDelete(_, _)
SetDelete(s, fn) ==
    IF s = <<>> THEN <<>>
    ELSE IF Head(s) = fn THEN SetDelete(Tail(s), fn)
         ELSE <<Head(s)>> \o SetDelete(Tail(s), fn)

\* what a page's state setters store when they read the getters
Read(p, v, L, E, S) ==
    IF p = "home" THEN [loops |-> L, expenses |-> E, settings |-> S]
    ELSE IF p = "insights" THEN [v EXCEPT !.loops = L]
    ELSE IF p = "expenses" THEN [v EXCEPT !.expenses = E]
    ELSE [v EXCEPT !.loops = L, !.settings = S]

(* --------------------------- async plumbing --------------------------- *)

Free(t) == calls[t].pc = "idle"
FreeTask == CHOOSE t \in Tasks : Free(t) /\ \A u \in Tasks : Free(u) => t <= u
CanStart == started < MaxCalls /\ \E t \in Tasks : Free(t)

\* the call runs up to `await supabase.auth.getUser()`
Begin(op, arg, chain, loc, live) ==
    [op |-> op, pc |-> "user", stage |-> "", arg |-> arg, res |-> Null,
     dirty |-> FALSE, chain |-> chain, loc |-> loc, live |-> live,
     alone |-> FALSE]

\* the first request a call issues once requireUserId has returned
FirstStage(op) == IF op = "refreshAll" THEN "settings" ELSE "row"

\* Fields of a call: op, pc and stage say where it stands; arg is its
\* argument (its payload once built), res the answer in flight; chain names
\* the caller's code awaiting it and loc that caller's local variables; live
\* tells whether the component that made the call is still mounted.  Two
\* fields only record history: dirty (this refreshAll has changed a cache)
\* and alone (no other call was in flight since this workflow called saveLoop).

\* The caller's code after `await <call>`: what the task does next when the
\* call `c` has returned (ok) or thrown.
\*   "none"          a bare call, or refreshAll().catch(console.error)
\*   "onSave"        saveLoop -> updateLoopMileage -> refreshAll -> read, reset
\*   "onDelete"      deleteLoop -> refreshAll -> read
\*   "submitExpense" saveExpense -> refreshAll -> read, then clear the form
\*   "removeExpense" deleteExpense -> refreshAll -> read
\*   "mountLoops", "mountInsights", "mountExpenses"   refreshAll().then(read)
Continue(c, ok, saved) ==
    IF ~ok THEN Idle
    ELSE IF c.chain = "onSave" /\ c.op = "saveLoop"
      THEN [Begin("updateLoopMileage",
                  [id |-> saved.id, miles |-> c.loc.loop.mileage_miles,
                   cost |-> c.loc.loop.mileage_cost],
                  "onSave", c.loc, c.live) EXCEPT !.alone = c.alone]
    ELSE IF c.chain \in {"onSave", "onDelete", "submitExpense", "removeExpense"}
            /\ c.op # "refreshAll"
      THEN [Begin("refreshAll", Null, c.chain, c.loc, c.live)
               EXCEPT !.alone = c.alone]
    ELSE Idle

\* a caller that does not read the getters again after the refresh
ReadsAfterNone(c, ok) == {}

\* the pages whose state the continuation sets from the getters
ReadsAfter(c, ok) ==
    IF ok /\ c.live /\ c.op = "refreshAll"
    THEN IF c.chain \in {"onSave", "onDelete", "mountLoops"} THEN {"loops"}
         ELSE IF c.chain = "mountInsights" THEN {"insights"}
         ELSE IF c.chain \in {"submitExpense", "removeExpense", "mountExpenses"}
           THEN {"expenses"}
         ELSE {}
    ELSE {}

\* a handler whose catch block shows nothing
FailureAlertNone(c) == ""

\* the catch block of the handler awaiting the call: alert(...)
FailureAlert(c) ==
    IF c.chain = "onSave" THEN "Failed to save loop. Please try again."
    ELSE IF c.chain = "onDelete" THEN "Failed to delete loop. Please try again."
    ELSE IF c.chain = "submitExpense"
      THEN "Failed to save expense. Please try again."
    ELSE IF c.chain = "removeExpense"
      THEN "Failed to delete expense. Please try again."
    ELSE ""

\* The tail of every continuation: the call `t` returns or throws after a
\* notification `n` (NoNotify when notify was not reached), and the awaiting
\* caller runs on in the same turn.  An exception leaving notify would make
\* the call throw.
Finish(t, ok, n, saved) ==
    LET c == calls[t]
        success == ok /\ ~n.threw
        reads == ReadsAfter(c, success)
    IN /\ called' = n.called
       /\ calls' = [calls EXCEPT ![t] = Continue(c, success, saved)]
       /\ view' = [p \in Pages |->
                     IF p \in Range(n.called) \/ p \in reads
                     THEN Read(p, view[p], loopsCache', expensesCache',
                               settingsCache')
                     ELSE view[p]]
       /\ form' = IF success /\ c.live /\ c.chain = "onSave" /\ c.op = "refreshAll"
                  THEN resetForm(c.loc.form.bagFeeTouched, settingsCache')
                  ELSE IF success /\ c.live /\ c.chain = "mountLoops"
                          /\ c.op = "refreshAll"
                    THEN applyDefaultBagFee(form, FALSE, "Single", settingsCache')
                  ELSE form
       /\ draft' = IF success /\ c.live /\ c.chain = "submitExpense"
                        /\ c.op = "refreshAll"
                   THEN BlankDraft ELSE draft
       /\ alerted' = IF success THEN "" ELSE FailureAlert(c)
       /\ UNCHANGED renderVars
       /\ UNCHANGED <<subs, page, budget>>

\* a step inside a call that neither returns nor notifies
Step(t, c2) ==
    /\ calls' = [calls EXCEPT ![t] = c2]
    /\ called' = <<>>
    /\ alerted' = ""
    /\ UNCHANGED renderVars
    /\ UNCHANGED <<subs, budget, uiVars>>

\* how the store or the auth service answers a request
Answer(err, data) == [error |-> err, data |-> data]

(* ----------------------- storage.ts: cache updates --------------------- *)

\* the upsert without the filter: the prior version stays in the cache
UpsertCacheNoFilter(cache, saved) == <<saved>> \o cache

\* [saved, ...cache.filter((x) => x.id !== saved.id)]
UpsertCache(cache, saved) == <<saved>> \o WithoutId(cache, saved.id)

\* the filter with the test inverted: only the deleted record stays
RemoveFromCacheInverted(cache, id) == SelectSeq(cache, LAMBDA x : x.id = id)

\* cache.filter((x) => x.id !== id)
RemoveFromCache(cache, id) == WithoutId(cache, id)

\* sRow ? settingsFromDb(sRow) : null
SettingsOrNull(sRow) == IF sRow = Null THEN Null ELSE settingsFromDb(sRow)

(* ----------------------- the client starts a call --------------------- *)

\* what callers pass to saveLoop, saveExpense and saveSettings
LoopInputs ==
    {[id |-> i, date |-> MaxDate, mileage_miles |-> MaxMiles,
      mileage_cost |-> MaxMiles * DefaultMileageRate] : i \in LoopIds}
\* what the expense form holds besides the date and the amount
Vendor == Str(<<"R", "E", "I">>)
Gear == Str(<<"G", "e", "a", "r">>)
ReceiptName == Str(<<"r", ".", "j", "p", "g">>)
ExpenseInputs ==
    {[id |-> i, date |-> MaxDate, amount |-> 25, vendor |-> Vendor,
      category |-> Gear, receiptName |-> ReceiptName] : i \in ExpenseIds}
SettingsInputs == {[mileageRate |-> 0], [mileageRate |-> OtherMileageRate]}

\* the call is made: it runs in a free task up to its first await
Launch(c) ==
    /\ calls' = [t \in Tasks |-> IF t = FreeTask THEN c
                                ELSE [calls[t] EXCEPT !.alone = FALSE]]
    /\ started' = started + 1
    /\ UNCHANGED mounts
    /\ called' = <<>>
    /\ alerted' = ""
    /\ UNCHANGED renderVars
    /\ UNCHANGED <<subs, cacheVars, dbVars, uiVars>>

refreshAll ==
    /\ CanStart
    /\ Launch(Begin("refreshAll", Null, "none", Null, FALSE))

saveLoop ==
    /\ CanStart
    /\ \E loop \in LoopInputs : Launch(Begin("saveLoop", loop, "none", Null, FALSE))

deleteLoop ==
    /\ CanStart
    /\ \E loopId \in LoopIds :
         Launch(Begin("deleteLoop", [id |-> loopId], "none", Null, FALSE))

updateLoopMileage ==
    /\ CanStart
    /\ \E loopId \in LoopIds :
         Launch(Begin("updateLoopMileage",
                      [id |-> loopId, miles |-> 1, cost |-> DefaultMileageRate],
                      "none", Null, FALSE))

saveExpense ==
    /\ CanStart
    /\ \E expense \in ExpenseInputs :
         Launch(Begin("saveExpense", expense, "none", Null, FALSE))

deleteExpense ==
    /\ CanStart
    /\ \E expenseId \in ExpenseIds :
         Launch(Begin("deleteExpense", [id |-> expenseId], "none", Null, FALSE))

saveSettings ==
    /\ CanStart
    /\ \E settings \in SettingsInputs :
         Launch(Begin("saveSettings", settings, "none", Null, FALSE))

\* subscribe(fn): subs.add(fn)
subscribe(fn) ==
    /\ subs' = SetAdd(subs, fn)
    /\ called' = <<>>
    /\ alerted' = ""
    /\ UNCHANGED renderVars
    /\ UNCHANGED <<cacheVars, dbVars, calls, budget, uiVars>>

\* the function subscribe returned: subs.delete(fn)
unsubscribe(fn) ==
    /\ subs' = SetDelete(subs, fn)
    /\ called' = <<>>
    /\ alerted' = ""
    /\ UNCHANGED renderVars
    /\ UNCHANGED <<cacheVars, dbVars, calls, budget, uiVars>>

(* ------------------------- requireUserId ------------------------------ *)

Awaiting(t, op, stage, pc) ==
    calls[t].op = op /\ calls[t].stage = stage /\ calls[t].pc = pc

\* the payload the call builds once it has the user id
Payload(c) ==
    IF c.op = "saveLoop" THEN loopToDb(UserId, c.arg)
    ELSE IF c.op = "saveExpense" THEN expenseToDb(UserId, c.arg)
    ELSE IF c.op = "saveSettings" THEN settingsToDb(UserId, c.arg)
    ELSE c.arg

\* supabase.auth.getUser() answers: an error or a missing user makes the call
\* throw; otherwise the call builds its payload and issues its first request
requireUserId(t) ==
    /\ calls[t].pc = "user"
    /\ UNCHANGED <<cacheVars, dbVars>>
    /\ \E ok \in BOOLEAN :
         IF ok
         THEN Step(t, [calls[t] EXCEPT !.pc = "request",
                                       !.stage = FirstStage(calls[t].op),
                                       !.arg = Payload(calls[t])])
         ELSE Finish(t, FALSE, NoNotify, Null)

(* -------------------- the store processes a request ------------------- *)

Respond(t, res) == Step(t, [calls[t] EXCEPT !.pc = "response", !.res = res])
Rejected == Answer(TRUE, Null)

dbSelectSettings(t) ==
    /\ Awaiting(t, "refreshAll", "settings", "request")
    /\ UNCHANGED <<cacheVars, dbVars>>
    /\ \E ok \in BOOLEAN :
         Respond(t, IF ok THEN Answer(FALSE, dbSettings) ELSE Rejected)

dbSelectLoops(t) ==
    /\ Awaiting(t, "refreshAll", "loops", "request")
    /\ UNCHANGED <<cacheVars, dbVars>>
    /\ \E ok \in BOOLEAN, lRows \in SelectOrderedByDateDesc(dbLoops) :
         Respond(t, IF ok THEN Answer(FALSE, lRows) ELSE Rejected)

dbSelectExpenses(t) ==
    /\ Awaiting(t, "refreshAll", "expenses", "request")
    /\ UNCHANGED <<cacheVars, dbVars>>
    /\ \E ok \in BOOLEAN, eRows \in SelectOrderedByDateDesc(dbExpenses) :
         Respond(t, IF ok THEN Answer(FALSE, eRows) ELSE Rejected)

dbUpsertLoop(t) ==
    /\ Awaiting(t, "saveLoop", "row", "request")
    /\ UNCHANGED <<cacheVars, dbExpenses, dbSettings>>
    /\ \E ok \in BOOLEAN :
         /\ dbLoops' = IF ok THEN Upsert(dbLoops, calls[t].arg) ELSE dbLoops
         /\ Respond(t, IF ok THEN Answer(FALSE, calls[t].arg) ELSE Rejected)

dbDeleteLoop(t) ==
    /\ Awaiting(t, "deleteLoop", "row", "request")
    /\ UNCHANGED <<cacheVars, dbExpenses, dbSettings>>
    /\ \E ok \in BOOLEAN :
         /\ dbLoops' = IF ok THEN Delete(dbLoops, calls[t].arg.id) ELSE dbLoops
         /\ Respond(t, IF ok THEN Answer(FALSE, Null) ELSE Rejected)

\* .single() answers with an error when no row matched the update
dbUpdateLoop(t) ==
    /\ Awaiting(t, "updateLoopMileage", "row", "request")
    /\ UNCHANGED <<cacheVars, dbExpenses, dbSettings>>
    /\ \E ok \in BOOLEAN :
         LET a == calls[t].arg
             hit == ok /\ dbLoops[a.id] # Null
             table == IF hit THEN UpdateMileage(dbLoops, a.id, a.miles, a.cost)
                      ELSE dbLoops
         IN /\ dbLoops' = table
            /\ Respond(t, IF hit THEN Answer(FALSE, table[a.id]) ELSE Rejected)

dbUpsertExpense(t) ==
    /\ Awaiting(t, "saveExpense", "row", "request")
    /\ UNCHANGED <<cacheVars, dbLoops, dbSettings>>
    /\ \E ok \in BOOLEAN :
         /\ dbExpenses' = IF ok THEN Upsert(dbExpenses, calls[t].arg) ELSE dbExpenses
         /\ Respond(t, IF ok THEN Answer(FALSE, calls[t].arg) ELSE Rejected)

dbDeleteExpense(t) ==
    /\ Awaiting(t, "deleteExpense", "row", "request")
    /\ UNCHANGED <<cacheVars, dbLoops, dbSettings>>
    /\ \E ok \in BOOLEAN :
         /\ dbExpenses' = IF ok THEN Delete(dbExpenses, calls[t].arg.id)
                          ELSE dbExpenses
         /\ Respond(t, IF ok THEN Answer(FALSE, Null) ELSE Rejected)

\* .upsert(payload, { onConflict: "user_id" })
dbUpsertSettings(t) ==
    /\ Awaiting(t, "saveSettings", "row", "request")
    /\ UNCHANGED <<cacheVars, dbLoops, dbExpenses>>
    /\ \E ok \in BOOLEAN :
         /\ dbSettings' = IF ok THEN calls[t].arg ELSE dbSettings
         /\ Respond(t, IF ok THEN Answer(FALSE, calls[t].arg) ELSE Rejected)

(* ------------- storage.ts: the continuations after each await --------- *)

\* a failure path that clears the caches and notifies before throwing
ThrowClearing(t) ==
    /\ loopsCache' = <<>>
    /\ expensesCache' = <<>>
    /\ settingsCache' = Null
    /\ UNCHANGED dbVars
    /\ Finish(t, FALSE, notify(subs), Null)

\* the call throws: no cache is touched, notify is not reached
Throw(t) ==
    /\ UNCHANGED <<cacheVars, dbVars>>
    /\ Finish(t, FALSE, NoNotify, Null)

\* refreshAll, after the settings query
refreshAllSettings(t) ==
    /\ Awaiting(t, "refreshAll", "settings", "response")
    /\ LET c == calls[t]
           s == SettingsOrNull(c.res.data)
       IN IF c.res.error THEN Throw(t)
          ELSE /\ settingsCache' = s
               /\ UNCHANGED <<loopsCache, expensesCache, dbVars>>
               /\ Step(t, [c EXCEPT !.pc = "request", !.stage = "loops",
                                    !.res = Null,
                                    !.dirty = c.dirty \/ s # settingsCache])

\* refreshAll adding the rows it read to the cache instead of replacing it
refreshAllLoopsAppend(t) ==
    /\ Awaiting(t, "refreshAll", "loops", "response")
    /\ LET c == calls[t]
           l == loopsCache \o Map(loopFromDb, c.res.data)
       IN IF c.res.error THEN Throw(t)
          ELSE /\ loopsCache' = l
               /\ UNCHANGED <<settingsCache, expensesCache, dbVars>>
               /\ Step(t, [c EXCEPT !.pc = "request", !.stage = "expenses",
                                    !.res = Null,
                                    !.dirty = c.dirty \/ l # loopsCache])

\* refreshAll, after the loops query
refreshAllLoops(t) ==
    /\ Awaiting(t, "refreshAll", "loops", "response")
    /\ LET c == calls[t]
           l == Map(loopFromDb, c.res.data)
       IN IF c.res.error THEN Throw(t)
          ELSE /\ loopsCache' = l
               /\ UNCHANGED <<settingsCache, expensesCache, dbVars>>
               /\ Step(t, [c EXCEPT !.pc = "request", !.stage = "expenses",
                                    !.res = Null,
                                    !.dirty = c.dirty \/ l # loopsCache])

\* refreshAll, after the expenses query: the last cache, then notify()
refreshAllExpenses(t) ==
    /\ Awaiting(t, "refreshAll", "expenses", "response")
    /\ LET c == calls[t]
           e == Map(expenseFromDb, c.res.data)
       IN IF c.res.error THEN Throw(t)
          ELSE /\ expensesCache' = e
               /\ UNCHANGED <<settingsCache, loopsCache, dbVars>>
               /\ Finish(t, TRUE, notify(subs), Null)

\* a saveLoop that puts its payload in the cache whatever the store answered
saveLoopResumeOptimistic(t) ==
    /\ Awaiting(t, "saveLoop", "row", "response")
    /\ LET c == calls[t]
           saved == loopFromDb(c.arg)
       IN /\ loopsCache' = UpsertCache(loopsCache, saved)
          /\ UNCHANGED <<settingsCache, expensesCache, dbVars>>
          /\ Finish(t, ~c.res.error, notify(subs), saved)

\* saveLoop, after the upsert
saveLoopResume(t) ==
    /\ Awaiting(t, "saveLoop", "row", "response")
    /\ LET c == calls[t]
           saved == loopFromDb(c.res.data)
           l == UpsertCache(loopsCache, saved)
       IN IF c.res.error THEN Throw(t)
          ELSE /\ loopsCache' = l
               /\ UNCHANGED <<settingsCache, expensesCache, dbVars>>
               /\ Finish(t, TRUE, notify(subs), saved)

deleteLoopResume(t) ==
    /\ Awaiting(t, "deleteLoop", "row", "response")
    /\ LET c == calls[t]
           l == RemoveFromCache(loopsCache, c.arg.id)
       IN IF c.res.error THEN Throw(t)
          ELSE /\ loopsCache' = l
               /\ UNCHANGED <<settingsCache, expensesCache, dbVars>>
               /\ Finish(t, TRUE, notify(subs), Null)

updateLoopMileageResume(t) ==
    /\ Awaiting(t, "updateLoopMileage", "row", "response")
    /\ LET c == calls[t]
           updated == loopFromDb(c.res.data)
           l == UpsertCache(loopsCache, updated)
       IN IF c.res.error THEN Throw(t)
          ELSE /\ loopsCache' = l
               /\ UNCHANGED <<settingsCache, expensesCache, dbVars>>
               /\ Finish(t, TRUE, notify(subs), updated)

saveExpenseResume(t) ==
    /\ Awaiting(t, "saveExpense", "row", "response")
    /\ LET c == calls[t]
           saved == expenseFromDb(c.res.data)
           e == UpsertCache(expensesCache, saved)
       IN IF c.res.error THEN Throw(t)
          ELSE /\ expensesCache' = e
               /\ UNCHANGED <<settingsCache, loopsCache, dbVars>>
               /\ Finish(t, TRUE, notify(subs), saved)

deleteExpenseResume(t) ==
    /\ Awaiting(t, "deleteExpense", "row", "response")
    /\ LET c == calls[t]
           e == RemoveFromCache(expensesCache, c.arg.id)
       IN IF c.res.error THEN Throw(t)
          ELSE /\ expensesCache' = e
               /\ UNCHANGED <<settingsCache, loopsCache, dbVars>>
               /\ Finish(t, TRUE, notify(subs), Null)

saveSettingsResume(t) ==
    /\ Awaiting(t, "saveSettings", "row", "response")
    /\ LET c == calls[t]
           s == settingsFromDb(c.res.data)
       IN IF c.res.error THEN Throw(t)
          ELSE /\ settingsCache' = s
               /\ UNCHANGED <<loopsCache, expensesCache, dbVars>>
               /\ Finish(t, TRUE, notify(subs), s)

(* ------------------------------ the pages ----------------------------- *)

\* The router shows one page at a time.  Mounting page p unmounts the page
\* shown (its effect cleanup unsubscribes, its state is gone, and the calls
\* it made run on for a component that no longer exists); p's effect then
\* reads the getters into its state, calls refreshAll and, on Home and
\* Insights, subscribes.
CanAct == started < MaxActs /\ \E t \in Tasks : Free(t)

Mount(p, chain, live) ==
    /\ mounts < MaxMounts
    /\ \E t \in Tasks : Free(t)
    /\ page' = p
    /\ view' = [q \in Pages |->
                  IF q = p
                  THEN Read(p, EmptyView, loopsCache, expensesCache, settingsCache)
                  ELSE EmptyView]
    /\ form' = BlankForm
    /\ draft' = BlankDraft
    /\ calls' = [t \in Tasks |->
                   IF t = FreeTask
                   THEN Begin("refreshAll", Null, chain, Null, live)
                   ELSE [calls[t] EXCEPT !.live = FALSE, !.alone = FALSE]]
    /\ subs' = IF p \in {"loops", "expenses"} THEN SetDelete(subs, page)
               ELSE SetAdd(SetDelete(subs, page), p)
    /\ mounts' = mounts + 1
    /\ UNCHANGED started
    /\ called' = <<>>
    /\ alerted' = ""
    /\ UNCHANGED renderVars
    /\ UNCHANGED <<cacheVars, dbVars>>

\* Home.tsx useEffect: refreshAll().catch(...), subscribe
HomePage ==
    /\ page # "home"
    /\ Mount("home", "none", FALSE)

\* Insights.tsx useEffect: refreshAll().then(setLoops(getLoops())), subscribe
Insights ==
    /\ page # "insights"
    /\ Mount("insights", "mountInsights", TRUE)

\* Loops.tsx useEffect: refreshAll().then(setLoops, setSettings)
LoopsPage ==
    /\ page # "loops"
    /\ Mount("loops", "mountLoops", TRUE)

\* Expenses.tsx useEffect: refreshAll().then(setExpenses(getExpenses()))
ExpensesPage ==
    /\ page # "expenses"
    /\ Mount("expenses", "mountExpenses", TRUE)

\* Loops.tsx update(patch): the user fills in the date
update ==
    /\ page = "loops"
    /\ \E d \in Dates : form' = [form EXCEPT !.date = d]
    /\ called' = <<>>
    /\ alerted' = ""
    /\ UNCHANGED renderVars
    /\ UNCHANGED <<subs, cacheVars, dbVars, calls, budget, view, page, draft>>

\* Loops.tsx onEdit(l): the form takes a listed loop
onEdit ==
    /\ page = "loops"
    /\ \E l \in Range(view["loops"].loops) :
         form' = [id |-> l.id, date |-> l.date,
                  mileage_miles |-> l.mileage_miles,
                  mileage_cost |-> l.mileage_cost,
                  bagFeeStr |-> IF l.bagFee # 0 THEN Dollars(l.bagFee)
                                ELSE Str(<<>>),
                  bagFeeTouched |-> TRUE]
    /\ called' = <<>>
    /\ alerted' = ""
    /\ UNCHANGED renderVars
    /\ UNCHANGED <<subs, cacheVars, dbVars, calls, budget, view, page, draft>>

\* Loops.tsx onSave, up to `await computeRoundTripMilesFlexible(...)`: the
\* handler keeps the form it was rendered with and the settings it read
onSave ==
    /\ page = "loops"
    /\ form.date # 0
    /\ CanAct
    /\ calls' = [calls EXCEPT ![FreeTask] =
                   [Idle EXCEPT !.op = "onSave", !.pc = "mileage", !.arg = form,
                                !.chain = "onSave", !.loc = [s |-> settingsCache],
                                !.live = TRUE]]
    /\ started' = started + 1
    /\ UNCHANGED mounts
    /\ called' = <<>>
    /\ alerted' = ""
    /\ UNCHANGED renderVars
    /\ UNCHANGED <<subs, cacheVars, dbVars, uiVars>>

\* what the user types into the bag-fee input
TypedFees == {<<"7", "5">>, <<"$", "9", "0">>}
\* Loops.tsx sanitizeMoneyInput: s.replace(/[^\d.]/g, "")
sanitizeMoneyInput(s) ==
    SelectSeq(s, LAMBDA ch : ch = "." \/ \E i \in DOMAIN Decimal : Decimal[i] = ch)
\* Loops.tsx toNumber(bagFeeStr || "0") of a text of digits, in cents
toNumber(text) ==
    IF \A i \in DOMAIN text.str : \E j \in DOMAIN Decimal : Decimal[j] = text.str[i]
    THEN LET value[i \in 0..Len(text.str)] ==
                 IF i = 0 THEN 0
                 ELSE value[i - 1] * 10
                      + (CHOOSE j \in DOMAIN Decimal : Decimal[j] = text.str[i]) - 1
         IN value[Len(text.str)] * 100
    ELSE 0

\* Loops.tsx, the bag-fee input's onChange
setBagFeeStr ==
    /\ page = "loops"
    /\ \E typed \in TypedFees :
         form' = [form EXCEPT !.bagFeeStr = Str(sanitizeMoneyInput(typed)),
                              !.bagFeeTouched = TRUE]
    /\ called' = <<>>
    /\ alerted' = ""
    /\ UNCHANGED renderVars
    /\ UNCHANGED <<subs, cacheVars, dbVars, calls, budget, view, page, draft>>

\* Loops.tsx, the caddie-type select's onChange: update({loopType}) and
\* applyDefaultBagFee(nextType) of the current render
LoopTypes == {"Single", "Double", "Forecaddie"}
setLoopType ==
    /\ page = "loops"
    /\ \E nextType \in LoopTypes :
         form' = applyDefaultBagFee(form, form.bagFeeTouched, nextType,
                                    settingsCache)
    /\ called' = <<>>
    /\ alerted' = ""
    /\ UNCHANGED renderVars
    /\ UNCHANGED <<subs, cacheVars, dbVars, calls, budget, view, page, draft>>

\* Number(s?.mileageRate ?? 0.67)
MileageRateOf(s) == IF s = Null THEN DefaultMileageRate ELSE s.mileageRate

\* a save that zeroes the mileage when the collaborator gives no result
MileageZeroed(f, computed, mileageRate) ==
    IF computed # NaN
    THEN [miles |-> computed, cost |-> computed * mileageRate]
    ELSE [miles |-> 0, cost |-> 0]

\* onSave: mileageMiles / mileageCost start from the form's values and are
\* replaced when the collaborator returned a finite distance
Mileage(f, computed, mileageRate) ==
    IF computed # NaN
    THEN [miles |-> computed, cost |-> computed * mileageRate]
    ELSE [miles |-> NumberOr0(f.mileage_miles), cost |-> NumberOr0(f.mileage_cost)]

\* uid(): an id no record and no call in flight carries
UsedIds ==
    {k \in LoopIds : dbLoops[k] # Null} \cup Ids(loopsCache)
      \cup UNION {Ids(view[p].loops) : p \in Pages}
      \cup {calls[t].arg.id : t \in {u \in Tasks : calls[u].op = "saveLoop"}}
uid == CHOOSE k \in LoopIds \ UsedIds : \A j \in LoopIds \ UsedIds : k <= j

\* onSave resumes when computeRoundTripMilesFlexible resolves, with null
\* (collaborator unavailable, timed out, no result: NaN here) or with a
\* round-trip distance; it builds loopToSave and calls saveLoop
computeRoundTripMilesFlexible(t) ==
    /\ calls[t].pc = "mileage"
    /\ calls[t].arg.id = 0 => LoopIds \ UsedIds # {}
    /\ \E computed \in {NaN} \cup 0..MaxMiles :
         LET f == calls[t].arg
             s == calls[t].loc.s
             m == Mileage(f, computed, MileageRateOf(s))
             loopToSave == [id |-> IF f.id # 0 THEN f.id ELSE uid,
                            date |-> f.date,
                            bagFee |-> toNumber(f.bagFeeStr),
                            mileage_miles |-> m.miles,
                            mileage_cost |-> m.cost]
             c == Begin("saveLoop", loopToSave, "onSave",
                        [loop |-> loopToSave, form |-> f, s |-> s,
                         computed |-> computed],
                        calls[t].live)
         IN calls' = [u \in Tasks |->
                        IF u = t
                        THEN [c EXCEPT !.alone = \A v \in Tasks \ {t} : Free(v)]
                        ELSE [calls[u] EXCEPT !.alone = FALSE]]
    /\ called' = <<>>
    /\ alerted' = ""
    /\ UNCHANGED renderVars
    /\ UNCHANGED <<subs, cacheVars, dbVars, budget, uiVars>>

\* Loops.tsx onDelete(id), up to the first await of deleteLoop
onDelete ==
    /\ page = "loops"
    /\ CanAct
    /\ \E l \in Range(view["loops"].loops) :
         calls' = [t \in Tasks |->
                     IF t = FreeTask
                     THEN Begin("deleteLoop", [id |-> l.id], "onDelete", Null, TRUE)
                     ELSE [calls[t] EXCEPT !.alone = FALSE]]
    /\ started' = started + 1
    /\ UNCHANGED mounts
    /\ called' = <<>>
    /\ alerted' = ""
    /\ UNCHANGED renderVars
    /\ UNCHANGED <<subs, cacheVars, dbVars, uiVars>>

(* ------------------------ dates and date ranges ----------------------- *)

\* A JavaScript Date is kept by its local fields [y, m, d, ms]: calendar day
\* and milliseconds since local midnight (no daylight-saving changes).  A
\* record date is the string the store returned: a calendar date
\* "YYYY-MM-DD" kept as [y, m, d], a text no Date can parse, or nothing.
Years == 2022 .. 2024
Missing == Null
Garbage == [text |-> "soon"]
NullText == [text |-> "null"]
Invalid == [invalid |-> TRUE]
IsYmd(v) == DOMAIN v = {"y", "m", "d"}
IsDate(v) == DOMAIN v = {"y", "m", "d", "ms"}

\* the calendar built into Date
IsLeap(y) == (y % 4 = 0 /\ y % 100 # 0) \/ y % 400 = 0
DaysInMonth(y, m) ==
    IF m = 2 THEN (IF IsLeap(y) THEN 29 ELSE 28)
    ELSE IF m \in {4, 6, 9, 11} THEN 30 ELSE 31

\* new Date(y, m, d): a day of the month outside the month rolls over
RECURSIVE NewDateYMD(_, _, _)
NewDateYMD(y, m, d) ==
    IF d < 1
    THEN IF m = 1 THEN NewDateYMD(y - 1, 12, d + 31)
         ELSE NewDateYMD(y, m - 1, d + DaysInMonth(y, m - 1))
    ELSE IF d > DaysInMonth(y, m)
    THEN IF m = 12 THEN NewDateYMD(y + 1, 1, d - 31)
         ELSE NewDateYMD(y, m + 1, d - DaysInMonth(y, m))
    ELSE [y |-> y, m |-> m, d |-> d, ms |-> 0]

\* Date.prototype.setDate, setHours(h, m, s, ms), setMonth(0, 1)
setDate(dt, n) == [NewDateYMD(dt.y, dt.m, n) EXCEPT !.ms = dt.ms]
EndOfDay == 86399999
setHours(dt, ms) == [dt EXCEPT !.ms = ms]
setMonthDay(dt, m, d) == [dt EXCEPT !.m = m, !.d = d]

\* dt.getTime() - days * 24 * 60 * 60 * 1000
MinusDays(dt, days) == setDate(dt, dt.d - days)

\* a >= b and a <= b on Dates: a comparison with an invalid Date is false
Geq(a, b) ==
    /\ IsDate(a)
    /\ IsDate(b)
    /\ \/ a.y > b.y
       \/ a.y = b.y /\ a.m > b.m
       \/ a.y = b.y /\ a.m = b.m /\ a.d > b.d
       \/ a.y = b.y /\ a.m = b.m /\ a.d = b.d /\ a.ms >= b.ms
Leq(a, b) == Geq(b, a)

\* a resolver whose N-day window starts N days before today, not N - 1
getDateRangeNDays(key, at) ==
    LET end == setHours(at, EndOfDay)
        start == setHours(at, 0)
        days == IF key = "7D" THEN 7 ELSE IF key = "14D" THEN 14 ELSE 30
    IN IF key = "ALL" THEN [start |-> Null, end |-> Null]
       ELSE IF key \in {"7D", "14D", "30D"}
         THEN [start |-> setDate(start, start.d - days), end |-> end]
       ELSE IF key = "MTD" THEN [start |-> setDate(start, 1), end |-> end]
       ELSE [start |-> setMonthDay(start, 1, 1), end |-> end]

\* getDateRange(key, now)
getDateRange(key, at) ==
    LET end == setHours(at, EndOfDay)
        start == setHours(at, 0)
        days == IF key = "7D" THEN 7 ELSE IF key = "14D" THEN 14 ELSE 30
    IN IF key = "ALL" THEN [start |-> Null, end |-> Null]
       ELSE IF key \in {"7D", "14D", "30D"}
         THEN [start |-> setDate(start, start.d - (days - 1)), end |-> end]
       ELSE IF key = "MTD" THEN [start |-> setDate(start, 1), end |-> end]
       ELSE [start |-> setMonthDay(start, 1, 1), end |-> end]

\* parseDateLocal: "YYYY-MM-DD" is local midnight of that day, anything
\* else goes to new Date(String(dateLike))
parseDateLocal(dateLike) ==
    IF IsYmd(dateLike) THEN NewDateYMD(dateLike.y, dateLike.m, dateLike.d)
    ELSE Invalid

\* isWithinRange(dateLike, range)
isWithinRange(dateLike, r) ==
    IF r.start = Null \/ r.end = Null THEN TRUE
    ELSE LET d == parseDateLocal(dateLike)
         IN Geq(d, r.start) /\ Leq(d, r.end)

(* -------------------- the pages' filtered lists ----------------------- *)

\* new Date(0)
Epoch == [y |-> 1970, m |-> 1, d |-> 1, ms |-> 0]

\* new Date(value): "YYYY-MM-DD" alone is read as UTC midnight, which local
\* time shows `zone` later; null is the epoch; other text is an invalid Date
NewDate(value, zone) ==
    IF IsYmd(value)
    THEN IF zone < 0
         THEN [NewDateYMD(value.y, value.m, value.d - 1)
                  EXCEPT !.ms = EndOfDay + 1 + zone]
         ELSE [NewDateYMD(value.y, value.m, value.d) EXCEPT !.ms = zone]
    ELSE IF value = Missing THEN Epoch
    ELSE Invalid

\* dt.toISOString().slice(0, 10): the calendar day of dt in UTC
toISODay(dt, zone) ==
    LET utc == IF dt.ms - zone < 0 THEN NewDateYMD(dt.y, dt.m, dt.d - 1)
               ELSE IF dt.ms - zone > EndOfDay
                 THEN NewDateYMD(dt.y, dt.m, dt.d + 1)
               ELSE dt
    IN [y |-> utc.y, m |-> utc.m, d |-> utc.d]

\* a < b on strings: digits sort before letters, "null" before "soon"
StrLess(a, b) ==
    IF IsYmd(a) /\ IsYmd(b)
    THEN \/ a.y < b.y
         \/ a.y = b.y /\ a.m < b.m
         \/ a.y = b.y /\ a.m = b.m /\ a.d < b.d
    ELSE IF IsYmd(a) THEN TRUE
    ELSE IF IsYmd(b) THEN FALSE
    ELSE a = NullText /\ b = Garbage

\* e.date >= key on a string or null e.date: null compares as a number
\* with NaN and is never >= or <=
StrGeq(a, b) == a # Missing /\ ~StrLess(a, b)
StrLeq(a, b) == a # Missing /\ ~StrLess(b, a)

\* Array.prototype.filter
RECURSIVE Filter(_, _)
Filter(Keep(_), seq) ==
    IF seq = <<>> THEN <<>>
    ELSE IF Keep(Head(seq)) THEN <<Head(seq)>> \o Filter(Keep, Tail(seq))
    ELSE Filter(Keep, Tail(seq))

\* String(x.date || ""): the empty string sorts before every other
DateText(x) == x.date
DateBefore(a, b) ==
    IF b = Missing THEN FALSE
    ELSE IF a = Missing THEN TRUE
    ELSE StrLess(a, b)

\* .sort(...) newest date first; records with equal dates keep their order
RECURSIVE InsertDesc(_, _)
InsertDesc(x, sorted) ==
    IF sorted = <<>> THEN <<x>>
    ELSE IF DateBefore(DateText(x), DateText(Head(sorted)))
      THEN <<Head(sorted)>> \o InsertDesc(x, Tail(sorted))
    ELSE <<x>> \o sorted
RECURSIVE SortDesc(_)
SortDesc(seq) ==
    IF seq = <<>> THEN <<>>
    ELSE InsertDesc(Head(seq), SortDesc(Tail(seq)))

\* Loops.tsx filteredLoops
LoopsFiltered(loops, key, at) ==
    LET r == getDateRange(key, at)
        inRange(iso) == IF key = "ALL" THEN TRUE ELSE isWithinRange(iso, r)
        keep(l) == l.date = Missing \/ inRange(l.date)
    IN [range |-> r, loops |-> SortDesc(Filter(keep, loops)), expenses |-> <<>>]

\* Expenses.tsx filtered: the bounds are compared as "YYYY-MM-DD" strings,
\* String(null) when the range has none
ExpensesFiltered(expenses, key, at, zone) ==
    LET r == getDateRange(key, at)
        startKey == IF r.start = Null THEN NullText ELSE toISODay(r.start, zone)
        endKey == IF r.end = Null THEN NullText ELSE toISODay(r.end, zone)
        keep(e) == StrGeq(e.date, startKey) /\ StrLeq(e.date, endKey)
    IN [range |-> [start |-> startKey, end |-> endKey],
        loops |-> <<>>, expenses |-> SortDesc(Filter(keep, expenses))]

\* Home.tsx rangeStart
rangeStart(filter, at) ==
    IF filter = "ALL" THEN Epoch
    ELSE IF filter = "YTD" THEN NewDateYMD(at.y, 1, 1)
    ELSE IF filter = "MTD" THEN NewDateYMD(at.y, at.m, 1)
    ELSE LET days == IF filter = "7D" THEN 7 ELSE IF filter = "14D" THEN 14
                     ELSE IF filter = "30D" THEN 30 ELSE 14
         IN setHours(setDate(at, at.d - days), 0)

\* Home.tsx filteredLoops and filteredExpenses
HomeFiltered(loops, expenses, filter, at, zone) ==
    LET start == rangeStart(filter, at)
        keep(x) == Geq(NewDate(x.date, zone), start)
    IN [range |-> [start |-> start, end |-> Null],
        loops |-> IF filter = "ALL" THEN loops ELSE Filter(keep, loops),
        expenses |-> IF filter = "ALL" THEN expenses
                     ELSE Filter(keep, expenses)]

\* Insights.tsx startOfDay, and the start of filteredLoops
startOfDay(dt) == setHours(dt, 0)
InsightsStart(key, at) ==
    LET todayStart == startOfDay(at)
    IN IF key = "7d" THEN MinusDays(todayStart, 6)
       ELSE IF key = "14d" THEN MinusDays(todayStart, 13)
       ELSE IF key = "30d" THEN MinusDays(todayStart, 29)
       ELSE IF key = "mtd" THEN NewDateYMD(at.y, at.m, 1)
       ELSE IF key = "ytd" THEN NewDateYMD(at.y, 1, 1)
       ELSE Null

\* Insights.tsx toDate and filteredLoops (loop type "all")
toDate(value, zone) ==
    IF value = Missing THEN Null
    ELSE LET d == NewDate(value, zone) IN IF d = Invalid THEN Null ELSE d
InsightsFiltered(loops, key, at, zone) ==
    LET start == InsightsStart(key, at)
        keep(l) == LET d == toDate(l.date, zone)
                   IN IF d = Null THEN FALSE ELSE Geq(d, startOfDay(start))
    IN [range |-> [start |-> start, end |-> Null],
        loops |-> IF start = Null THEN loops ELSE Filter(keep, loops),
        expenses |-> <<>>]

(* ------------------- sessions that show filtered lists ---------------- *)

\* the days of the calendar, and their number counted from the first
CalendarDays ==
    {c \in [y : Years, m : 1 .. 12, d : 1 .. 31] : c.d <= DaysInMonth(c.y, c.m)}
RECURSIVE DaysBeforeYear(_)
DaysBeforeYear(y) ==
    IF y - 1 \notin Years THEN 0
    ELSE DaysBeforeYear(y - 1) + (IF IsLeap(y - 1) THEN 366 ELSE 365)
RECURSIVE DaysBeforeMonth(_, _)
DaysBeforeMonth(y, m) ==
    IF m = 1 THEN 0 ELSE DaysBeforeMonth(y, m - 1) + DaysInMonth(y, m - 1)
DayNumber(c) == DaysBeforeYear(c.y) + DaysBeforeMonth(c.y, c.m) + c.d - 1

\* the days on which the session runs, the times of day and the time zones
\* (UTC-5, UTC, UTC+9)
RefDays ==
    {[y |-> 2024, m |-> 1, d |-> 1], [y |-> 2024, m |-> 3, d |-> 1],
     [y |-> 2024, m |-> 3, d |-> 10]}
Times == {0, 43200000, EndOfDay}
Zones == {0 - 18000000, 0, 32400000}
Instants == {[y |-> c.y, m |-> c.m, d |-> c.d, ms |-> t] : c \in RefDays, t \in Times}

\* the dates a stored record may carry: tomorrow, today and the days
\* around 7, 14 and 30 days before a session day, the first and last day of
\* a year, the first day of a session month, a text that is no date, and
\* no date at all
DaysBack == {0 - 1, 0, 1, 5, 6, 7, 8, 12, 13, 14, 15, 28, 29, 30, 31}
RecordDates ==
    {c \in CalendarDays :
        \/ \E r \in RefDays : DayNumber(r) - DayNumber(c) \in DaysBack
        \/ \E r \in RefDays : c.y = r.y /\ c.m = r.m /\ c.d = 1
        \/ c.m = 1 /\ c.d = 1
        \/ c.m = 12 /\ c.d = 31}
      \cup {Missing, Garbage}

RangeKeys == {"7D", "14D", "30D", "MTD", "YTD", "ALL"}
InsightsKeys == {"7d", "14d", "30d", "mtd", "ytd", "all"}
\* useState initial value of each page's selector
DefaultKey(p) == IF p = "insights" THEN "30d" ELSE "MTD"

\* the useMemo blocks of the page shown, run when it renders
RenderPage(p, v, key, at, zone) ==
    IF p = "loops" THEN LoopsFiltered(v.loops, key, at)
    ELSE IF p = "expenses" THEN ExpensesFiltered(v.expenses, key, at, zone)
    ELSE IF p = "home" THEN HomeFiltered(v.loops, v.expenses, key, at, zone)
    ELSE InsightsFiltered(v.loops, key, at, zone)

\* the rows of a table holding a record dated `date` and one dated today, as
\* a refresh returns them (newest first, a NULL date before the others)
StoredRows(date, today, money) ==
    LET rec == [id |-> 1, user_id |-> UserId, date |-> date,
                mileage_miles |-> NaN, mileage_cost |-> NaN, amount |-> money]
        ref == [id |-> 2, user_id |-> UserId, date |-> today,
                mileage_miles |-> NaN, mileage_cost |-> NaN, amount |-> money]
    IN IF date = Missing THEN <<rec, ref>> ELSE SortDesc(<<rec, ref>>)

\* a session in which a page is mounted and has refreshed from a store that
\* holds, in each table, a record of some date and a record dated today
InitRange ==
    /\ subs = <<>>
    /\ calls = [t \in Tasks |-> Idle]
    /\ started = 0
    /\ mounts = 1
    /\ called = <<>>
    /\ alerted = ""
    /\ form = BlankForm
    /\ draft = BlankDraft
    /\ dbSettings = Null
    /\ settingsCache = Null
    /\ now \in Instants
    /\ tz \in Zones
    /\ page \in Pages
    /\ rangeKey = DefaultKey(page)
    /\ \E date \in RecordDates :
         LET today == [y |-> now.y, m |-> now.m, d |-> now.d]
             rows == StoredRows(date, today, ExpenseAmount)
         IN /\ dbLoops = [k \in LoopIds |->
                            IF k <= 2 THEN [x \in {"id", "user_id", "date",
                                 "mileage_miles", "mileage_cost"} |->
                                    (CHOOSE r \in Range(rows) : r.id = k)[x]]
                            ELSE Null]
            /\ dbExpenses = [k \in ExpenseIds |->
                               IF k <= 2 THEN [x \in {"id", "user_id", "date",
                                    "amount"} |->
                                       (CHOOSE r \in Range(rows) : r.id = k)[x]]
                               ELSE Null]
            /\ loopsCache = Map(loopFromDb, rows)
            /\ expensesCache = Map(expenseFromDb, rows)
    /\ view = [p \in Pages |->
                 IF p = page
                 THEN Read(p, EmptyView, loopsCache, expensesCache, settingsCache)
                 ELSE EmptyView]
    /\ shown = RenderPage(page, view[page], rangeKey, now, tz)
    /\ raw = Null
    /\ out = Null

\* the user picks a range: the page renders again with the clock as it is
Select(key) ==
    /\ key # rangeKey
    /\ rangeKey' = key
    /\ shown' = RenderPage(page, view[page], key, now, tz)
    /\ UNCHANGED <<subs, cacheVars, dbVars, calls, budget, called, uiVars,
                   alerted, now, tz, raw, out>>

\* Loops.tsx / Expenses.tsx setRangeKey
setRangeKey ==
    /\ page \in {"loops", "expenses"}
    /\ \E key \in RangeKeys : Select(key)

\* Home.tsx setFilter
setFilter ==
    /\ page = "home"
    /\ \E key \in RangeKeys : Select(key)

\* Insights.tsx setRange
setRange ==
    /\ page = "insights"
    /\ \E key \in InsightsKeys : Select(key)

(* --------------------------- specifications --------------------------- *)

\* Expenses.tsx setDate / setAmount: the user fills in the entry form
setAmount ==
    /\ page = "expenses"
    /\ \E a \in {0, ExpenseAmount} : draft' = [date |-> MaxDate, amount |-> a]
    /\ called' = <<>>
    /\ alerted' = ""
    /\ UNCHANGED renderVars
    /\ UNCHANGED <<subs, cacheVars, dbVars, calls, budget, view, page, form>>

\* uuidv4(): an id no expense and no call in flight carries
UsedExpenseIds ==
    {k \in ExpenseIds : dbExpenses[k] # Null} \cup Ids(expensesCache)
      \cup UNION {Ids(view[p].expenses) : p \in Pages}
      \cup {calls[t].arg.id : t \in {u \in Tasks : calls[u].op = "saveExpense"}}
uuidv4 ==
    CHOOSE k \in ExpenseIds \ UsedExpenseIds :
        \A j \in ExpenseIds \ UsedExpenseIds : k <= j

\* Expenses.tsx submitExpense, up to the first await of saveExpense; the two
\* early returns (no date, no valid amount) are its guard
submitExpense ==
    /\ page = "expenses"
    /\ draft.date # 0
    /\ draft.amount > 0
    /\ ExpenseIds \ UsedExpenseIds # {}
    /\ CanAct
    /\ calls' = [t \in Tasks |->
                   IF t = FreeTask
                   THEN LET newExpense ==
                               [id |-> uuidv4, date |-> draft.date,
                                vendor |-> Vendor, description |-> Undefined,
                                category |-> Gear, amount |-> draft.amount,
                                receiptName |-> ReceiptName]
                        IN Begin("saveExpense", newExpense, "submitExpense",
                                 [newExpense |-> newExpense], TRUE)
                   ELSE [calls[t] EXCEPT !.alone = FALSE]]
    /\ started' = started + 1
    /\ UNCHANGED mounts
    /\ called' = <<>>
    /\ alerted' = ""
    /\ UNCHANGED renderVars
    /\ UNCHANGED <<subs, cacheVars, dbVars, uiVars>>

\* Expenses.tsx removeExpense(id), up to the first await of deleteExpense
removeExpense ==
    /\ page = "expenses"
    /\ CanAct
    /\ \E e \in Range(view["expenses"].expenses) :
         calls' = [t \in Tasks |->
                     IF t = FreeTask
                     THEN Begin("deleteExpense", [id |-> e.id], "removeExpense",
                                Null, TRUE)
                     ELSE [calls[t] EXCEPT !.alone = FALSE]]
    /\ started' = started + 1
    /\ UNCHANGED mounts
    /\ called' = <<>>
    /\ alerted' = ""
    /\ UNCHANGED renderVars
    /\ UNCHANGED <<subs, cacheVars, dbVars, uiVars>>

\* the steps of refreshAll and of the loop calls once started
LoopSteps ==
    \E t \in Tasks :
        \/ requireUserId(t)
        \/ dbSelectSettings(t)
        \/ dbSelectLoops(t)
        \/ dbSelectExpenses(t)
        \/ dbUpsertLoop(t)
        \/ dbDeleteLoop(t)
        \/ dbUpdateLoop(t)
        \/ refreshAllSettings(t)
        \/ refreshAllLoops(t)
        \/ refreshAllExpenses(t)
        \/ saveLoopResume(t)
        \/ deleteLoopResume(t)
        \/ updateLoopMileageResume(t)

\* the steps of the expense and settings calls once started
OtherSteps ==
    \E t \in Tasks :
        \/ dbUpsertExpense(t)
        \/ dbDeleteExpense(t)
        \/ dbUpsertSettings(t)
        \/ saveExpenseResume(t)
        \/ deleteExpenseResume(t)
        \/ saveSettingsResume(t)

\* the steps of the expense calls once started
ExpenseSteps ==
    \E t \in Tasks :
        \/ dbUpsertExpense(t)
        \/ dbDeleteExpense(t)
        \/ saveExpenseResume(t)
        \/ deleteExpenseResume(t)

\* a client calls one of the exported functions
ClientCall ==
    \/ refreshAll
    \/ saveLoop
    \/ deleteLoop
    \/ updateLoopMileage
    \/ saveExpense
    \/ deleteExpense
    \/ saveSettings

\* no call is in flight
Quiet == \A t \in Tasks : Free(t)

\* storage.ts under overlapping calls: a client calls while earlier calls
\* are still in flight
Next ==
    \/ ClientCall
    \/ LoopSteps
    \/ OtherSteps

Spec == Init /\ [][Next]_vars

\* storage.ts with subscribers: clients register and unregister callbacks
\* and make one call at a time
NextNotify ==
    \/ Quiet /\ ClientCall
    \/ \E fn \in Callbacks : subscribe(fn)
    \/ \E fn \in Callbacks : unsubscribe(fn)
    \/ LoopSteps
    \/ OtherSteps

SpecNotify == Init /\ [][NextNotify]_vars

\* the application: the user moves between Home, Insights and Loops and
\* adds, edits and deletes loops while earlier calls are still in flight
NextApp ==
    \/ HomePage
    \/ Insights
    \/ LoopsPage
    \/ update
    \/ onEdit
    \/ onSave
    \/ onDelete
    \/ \E t \in Tasks : computeRoundTripMilesFlexible(t)
    \/ LoopSteps

SpecApp == Init /\ [][NextApp]_vars

\* the two entry pages: the user moves between Loops and Expenses and
\* saves and deletes loops and expenses
NextForms ==
    \/ LoopsPage
    \/ ExpensesPage
    \/ update
    \/ onEdit
    \/ onSave
    \/ onDelete
    \/ \E t \in Tasks : computeRoundTripMilesFlexible(t)
    \/ setAmount
    \/ submitExpense
    \/ removeExpense
    \/ LoopSteps
    \/ ExpenseSteps

SpecForms == Init /\ [][NextForms]_vars

\* the account has default bag fees in its settings: $80 for a single and
\* $120 for a double bag, none for a forecaddie loop
SingleFee == 80
DoubleFee == 120
InitBagFee ==
    /\ subs = <<>>
    /\ loopsCache = <<>>
    /\ expensesCache = <<>>
    /\ settingsCache = Null
    /\ dbLoops = [k \in LoopIds |-> Null]
    /\ dbExpenses = [k \in ExpenseIds |-> Null]
    /\ dbSettings = [user_id |-> UserId, mileage_rate |-> OtherMileageRate,
                     default_bag_fee_single |-> SingleFee,
                     default_bag_fee_double |-> DoubleFee,
                     default_bag_fee_forecaddie |-> NaN]
    /\ calls = [t \in Tasks |-> Idle]
    /\ started = 0
    /\ mounts = 0
    /\ called = <<>>
    /\ view = [p \in Pages |-> EmptyView]
    /\ page = "none"
    /\ form = BlankForm
    /\ draft = BlankDraft
    /\ alerted = ""
    /\ NoRender

\* the Loops page of that account: the user opens the page, types a bag fee,
\* changes the caddie type and adds loops while the calls are in flight
NextBagFee ==
    \/ LoopsPage
    \/ update
    \/ setBagFeeStr
    \/ setLoopType
    \/ onSave
    \/ \E t \in Tasks : computeRoundTripMilesFlexible(t)
    \/ \E t \in Tasks :
          \/ requireUserId(t)
          \/ dbSelectSettings(t)
          \/ dbSelectLoops(t)
          \/ dbSelectExpenses(t)
          \/ dbUpsertLoop(t)
          \/ dbUpdateLoop(t)
          \/ refreshAllSettings(t)
          \/ refreshAllLoops(t)
          \/ refreshAllExpenses(t)
          \/ saveLoopResume(t)
          \/ updateLoopMileageResume(t)

SpecBagFee == InitBagFee /\ [][NextBagFee]_vars

\* the range selectors of the four pages over a loaded cache
NextRange ==
    \/ setRangeKey
    \/ setFilter
    \/ setRange

SpecRange == InitRange /\ [][NextRange]_vars

\* storage.ts over a store that holds rows of another client
SpecImported == InitImported /\ [][Next]_vars

(* ------------------ persisted records and their values ---------------- *)
(* A record read from localStorage is JSON: each value is a number         *)
(* [num |-> cents], a text [str |-> its characters], null, or absent.      *)

IsNum(v) == DOMAIN v = {"num"}
\* Number(text) when the text is no numeric literal
NotANumber == [nan |-> TRUE]

\* Math.max(0, n)
Max0(n) == IF n > 0 THEN n ELSE 0

Digits == <<"0", "1", "2", "3", "4", "5", "6", "7", "8", "9">>
IsDigit(c) == \E i \in DOMAIN Digits : Digits[i] = c
DigitValue(c) == (CHOOSE i \in DOMAIN Digits : Digits[i] = c) - 1
\* the number a run of digits denotes
RECURSIVE Natural(_)
Natural(s) ==
    IF s = <<>> THEN 0
    ELSE Natural(SubSeq(s, 1, Len(s) - 1)) * 10 + DigitValue(s[Len(s)])

\* Number(text) for a decimal literal (sign, digits, one point), in cents;
\* Number("") is 0, any other text is NaN
Number(s) ==
    LET neg == s # <<>> /\ Head(s) = "-"
        body == IF neg THEN Tail(s) ELSE s
        dots == {i \in DOMAIN body : body[i] = "."}
        ok == /\ \A i \in DOMAIN body : IsDigit(body[i]) \/ body[i] = "."
              /\ Cardinality(dots) <= 1
              /\ \E i \in DOMAIN body : IsDigit(body[i])
        p == IF dots = {} THEN Len(body) + 1 ELSE CHOOSE i \in dots : TRUE
        whole == SubSeq(body, 1, p - 1)
        frac == SubSeq(SubSeq(body, p + 1, Len(body)) \o <<"0", "0">>, 1, 2)
        cents == Natural(whole) * 100 + Natural(frac)
    IN IF s = <<>> THEN Num(0)
       ELSE IF ~ok THEN NotANumber
       ELSE Num(IF neg THEN 0 - cents ELSE cents)

\* String(n) of a whole number
RECURSIVE DigitsOf(_)
DigitsOf(n) ==
    IF n < 10 THEN <<Digits[n + 1]>>
    ELSE DigitsOf(n \div 10) \o <<Digits[(n % 10) + 1]>>
\* String(v): a text is itself, an id number its digits, undefined and null
\* their names
String(v) ==
    IF v = Undefined THEN Str(<<"u", "n", "d", "e", "f", "i", "n", "e", "d">>)
    ELSE IF v = Null THEN Str(<<"n", "u", "l", "l">>)
    ELSE IF IsNum(v) THEN Str(DigitsOf(v.num))
    ELSE v

\* String.prototype.toLowerCase, trim, startsWith
toLowerCase(s) ==
    LET Upper == <<"A", "B", "C", "D", "E", "F", "G", "H", "I", "J", "K", "L",
                   "M", "N", "O", "P", "Q", "R", "S", "T", "U", "V", "W", "X",
                   "Y", "Z">>
        Lower == <<"a", "b", "c", "d", "e", "f", "g", "h", "i", "j", "k", "l",
                   "m", "n", "o", "p", "q", "r", "s", "t", "u", "v", "w", "x",
                   "y", "z">>
    IN [i \in DOMAIN s |->
           IF \E k \in DOMAIN Upper : Upper[k] = s[i]
           THEN Lower[CHOOSE k \in DOMAIN Upper : Upper[k] = s[i]]
           ELSE s[i]]
RECURSIVE trim(_)
trim(s) ==
    IF s = <<>> THEN s
    ELSE IF Head(s) = " " THEN trim(Tail(s))
    ELSE IF s[Len(s)] = " " THEN trim(SubSeq(s, 1, Len(s) - 1))
    ELSE s
startsWith(s, prefix) ==
    Len(s) >= Len(prefix) /\ SubSeq(s, 1, Len(prefix)) = prefix
Cash == <<"c", "a", "s", "h">>
Digital == <<"d", "i", "g", "i", "t", "a", "l">>

(* --------------------- Income.tsx: normalizeLoop ---------------------- *)

\* String(v).replace(/[^0-9.\-]/g, "")
RECURSIVE Cleaned(_)
Cleaned(s) ==
    IF s = <<>> THEN <<>>
    ELSE (IF IsDigit(Head(s)) \/ Head(s) \in {".", "-"} THEN <<Head(s)>> ELSE <<>>)
           \o Cleaned(Tail(s))

\* Income.tsx num: "$64", "64.00", 64
IncomeNum(v) ==
    IF v \in {Null, Undefined} THEN 0
    ELSE IF IsNum(v) THEN v.num
    ELSE LET n == Number(Cleaned(v.str))
         IN IF n = NotANumber THEN 0 ELSE n.num

\* parseISO: s ? new Date(s) : new Date()
parseISO(s, at, zone) ==
    IF s \in {Missing, Undefined} THEN at
    ELSE IF IsDate(s) \/ s = Invalid THEN s
    ELSE NewDate(s, zone)

IncomeNormalizeLoop(loop, at, zone) ==
    LET bag == Max0(IncomeNum(Coalesce(Get(loop, "bagFee"), Get(loop, "bag_fee"))))
        explicitCash == Max0(IncomeNum(Coalesce(Get(loop, "tipCash"), Get(loop, "tip_cash"))))
        explicitDigital ==
            Max0(IncomeNum(Coalesce(Get(loop, "tipDigital"), Get(loop, "tip_digital"))))
        hasExplicit == explicitCash > 0 \/ explicitDigital > 0
        singleTip == IncomeNum(Coalesce(Get(loop, "tip"), Get(loop, "tipAmount")))
        method ==
            toLowerCase(trim(String(
                Coalesce(Get(loop, "tipType"),
                   Coalesce(Get(loop, "tip_type"),
                      Coalesce(Get(loop, "tip_method"), Str(<<>>))))).str))
        derive == ~hasExplicit /\ singleTip > 0
        cash == IF derive /\ startsWith(method, Cash) THEN singleTip ELSE explicitCash
        digital == IF derive /\ ~startsWith(method, Cash) THEN singleTip
                   ELSE explicitDigital
        pregrat == Max0(IncomeNum(Coalesce(Get(loop, "preGrat"),
                           Coalesce(Get(loop, "pre_grat"), Get(loop, "pregrat")))))
    IN [id |-> String(Get(loop, "id")),
        date |-> parseISO(Get(loop, "date"), at, zone),
        bagFee |-> Num(bag),
        pregrat |-> Num(pregrat),
        tipCash |-> Num(cash),
        tipDigital |-> Num(digital),
        courseName |-> Coalesce(Get(loop, "courseName"), Undefined),
        loopType |-> Coalesce(Get(loop, "loopType"), Undefined)]

(* ------------- the localStorage storage module: normalizeLoop --------- *)

\* num: a finite number, or null
num(v) ==
    IF v \in {Null, Undefined} \/ v = Str(<<>>) THEN Null
    ELSE IF IsNum(v) THEN v
    ELSE LET n == Number(v.str) IN IF n = NotANumber THEN Null ELSE n

normalizeLoop(l) ==
    LET bagFee == Coalesce(num(Coalesce(Get(l, "bagFee"), Get(l, "bag_fee"))), Num(0))
        legacyTip == num(Get(l, "tip"))
        legacyTipType ==
            toLowerCase(String(Coalesce(Get(l, "tipType"),
                                  Coalesce(Get(l, "tip_type"), Str(<<>>)))).str)
        cashTip ==
            Coalesce(num(Coalesce(Get(l, "cashTip"), Get(l, "cash_tip"))),
               Coalesce(IF legacyTip # Null /\ legacyTipType = Cash
                        THEN legacyTip ELSE Null,
                  Num(0)))
        digitalTip ==
            Coalesce(num(Coalesce(Get(l, "digitalTip"), Get(l, "digital_tip"))),
               Coalesce(IF legacyTip # Null /\ legacyTipType = Digital
                        THEN legacyTip ELSE Null,
                  Num(0)))
        preGrat == Coalesce(num(Coalesce(Get(l, "preGrat"),
                               Coalesce(Get(l, "pre_grat"), Get(l, "pregrat")))), Num(0))
        mileage_miles ==
            Coalesce(num(Coalesce(Get(l, "mileage_miles"), Get(l, "mileageMiles"))), Num(0))
        mileage_cost ==
            Coalesce(num(Coalesce(Get(l, "mileage_cost"), Get(l, "mileageCost"))), Num(0))
    IN [bagFee |-> bagFee, cashTip |-> cashTip, digitalTip |-> digitalTip,
        preGrat |-> preGrat, mileage_miles |-> mileage_miles,
        mileage_cost |-> mileage_cost] @@ l

(* ------------------------------ aggregation --------------------------- *)

\* a quotient a / b of two whole numbers, kept exact
Ratio(a, b) == [n |-> a, d |-> b]
Zero == Ratio(0, 1)

\* Insights.tsx safeNum
safeNum(v) == IF v = NaN THEN 0 ELSE v

\* for (const l of filteredLoops) total += safeNum(l[key])
RECURSIVE Added(_, _)
Added(loops, key) ==
    IF loops = <<>> THEN 0
    ELSE safeNum(Column(Head(loops), key)) + Added(Tail(loops), key)

\* String.prototype.split(sep)
RECURSIVE split(_, _)
split(s, sep) ==
    IF \A i \in DOMAIN s : s[i] # sep THEN <<s>>
    ELSE LET p == CHOOSE i \in DOMAIN s :
                     s[i] = sep /\ \A j \in 1..(i - 1) : s[j] # sep
         IN <<SubSeq(s, 1, p - 1)>> \o split(SubSeq(s, p + 1, Len(s)), sep)

\* Insights.tsx timeToMinutes: "HH:MM" or "H:MM" -> minutes from midnight,
\* or null (Number gives hundredths)
timeToMinutes(t) ==
    IF t \in {Null, Undefined, Str(<<>>)} THEN Null
    ELSE LET parts == split(String(t).str, ":")
         IN IF Len(parts) < 2 THEN Null
            ELSE LET h == Number(parts[1])
                     m == Number(parts[2])
                 IN IF h = NotANumber \/ m = NotANumber THEN Null
                    ELSE Num((h.num * 60 + m.num) \div 100)

\* a span that counts whatever the order of its two times
QualifiesAny(from, to) == from # Null /\ to # Null
\* from != null && to != null && to >= from
Qualifies(from, to) == from # Null /\ to # Null /\ to.num >= from.num

\* for (const l of filteredLoops): the minutes and the loops one time metric
\* adds up, from the time named `from` to the time named `to`
RECURSIVE Elapsed(_, _, _)
Elapsed(loops, from, to) ==
    IF loops = <<>> THEN [sum |-> 0, count |-> 0]
    ELSE LET a == timeToMinutes(Get(Head(loops), from))
             b == timeToMinutes(Get(Head(loops), to))
             rest == Elapsed(Tail(loops), from, to)
         IN IF Qualifies(a, b)
            THEN [sum |-> rest.sum + (b.num - a.num), count |-> rest.count + 1]
            ELSE rest

\* a / b without the test of b
Unguarded(a, b) == Ratio(a, b)
\* b > 0 ? a / b : 0
Guarded(a, b) == IF b > 0 THEN Ratio(a, b) ELSE Zero

\* Insights.tsx totals: the time-based metrics (hours are minutes / 60)
timeMetrics(filteredLoops, totalIncome) ==
    LET onBag == Elapsed(filteredLoops, "teeTime", "endTime")
        overall == Elapsed(filteredLoops, "reportTime", "endTime")
        wait == Elapsed(filteredLoops, "reportTime", "teeTime")
        pace == Elapsed(filteredLoops, "teeTime", "endTime")
    IN [onBagPerHour |-> Guarded(totalIncome * 60, onBag.sum),
        overallPerHour |-> Guarded(totalIncome * 60, overall.sum),
        avgWaitMins |-> Guarded(wait.sum, wait.count),
        avgPaceMins |-> Guarded(pace.sum, pace.count)]

\* totals that count the bag fees among the tips
totalsTipsWithBag(filteredLoops) ==
    LET bagFees == Added(filteredLoops, "bagFee")
        cashTips == Added(filteredLoops, "cashTip")
        digitalTips == Added(filteredLoops, "digitalTip")
        preGrat == Added(filteredLoops, "preGrat")
        totalIncome == bagFees + cashTips + digitalTips + preGrat
        totalLoops == Len(filteredLoops)
    IN [bagFees |-> bagFees, cashTips |-> cashTips, digitalTips |-> digitalTips,
        preGrat |-> preGrat, totalIncome |-> totalIncome, totalLoops |-> totalLoops,
        tipsPct |-> Guarded(totalIncome * 100, totalIncome),
        avgEarningsPerLoop |-> Guarded(totalIncome, totalLoops)]
         @@ timeMetrics(filteredLoops, totalIncome)

\* Insights.tsx totals
totals(filteredLoops) ==
    LET bagFees == Added(filteredLoops, "bagFee")
        cashTips == Added(filteredLoops, "cashTip")
        digitalTips == Added(filteredLoops, "digitalTip")
        preGrat == Added(filteredLoops, "preGrat")
        totalIncome == bagFees + cashTips + digitalTips + preGrat
        totalLoops == Len(filteredLoops)
        tipsTotal == cashTips + digitalTips + preGrat
    IN [bagFees |-> bagFees, cashTips |-> cashTips, digitalTips |-> digitalTips,
        preGrat |-> preGrat, totalIncome |-> totalIncome, totalLoops |-> totalLoops,
        tipsPct |-> Guarded(tipsTotal * 100, totalIncome),
        avgEarningsPerLoop |-> Guarded(totalIncome, totalLoops)]
         @@ timeMetrics(filteredLoops, totalIncome)

\* Income.tsx summarize: loops.reduce(...)
RECURSIVE reduce(_, _)
reduce(loops, acc) ==
    IF loops = <<>> THEN acc
    ELSE LET l == Head(loops)
         IN reduce(Tail(loops),
                   [bag |-> acc.bag + l.bagFee.num,
                    pregrat |-> acc.pregrat + l.pregrat.num,
                    cash |-> acc.cash + l.tipCash.num,
                    digital |-> acc.digital + l.tipDigital.num,
                    count |-> acc.count + 1])
summarize(loops) ==
    LET t == reduce(loops, [bag |-> 0, pregrat |-> 0, cash |-> 0, digital |-> 0,
                            count |-> 0])
        totalIncome == t.bag + t.pregrat + t.cash + t.digital
    IN [bag |-> t.bag, pregrat |-> t.pregrat, cash |-> t.cash,
        digital |-> t.digital, count |-> t.count, totalIncome |-> totalIncome,
        avgPerLoop |-> IF t.count # 0 THEN Ratio(totalIncome, t.count) ELSE Zero]

\* (a / b).toFixed(0): the nearest whole number, as the number it prints
toFixed0(q) == (2 * q.n + q.d) \div (2 * q.d)
\* Income.tsx pct: sum.totalIncome ? ((n / sum.totalIncome) * 100).toFixed(0) : "0"
pct(sum, n) ==
    IF sum.totalIncome # 0 THEN toFixed0(Ratio(n * 100, sum.totalIncome)) ELSE 0

(* ----------- sessions that normalize and aggregate records ------------ *)

\* an object without the keys in question
NoKeys == [k \in {} |-> Null]
\* the shapes a persisted loop has had: each group of keys is absent or
\* present under one of its historical names
StoredLoops ==
    LET BagShapes ==
            {NoKeys, [bagFee |-> Num(BagFee)], [bag_fee |-> Num(BagFee)],
             [bagFee |-> Str(<<"$", "6", "4">>)], [bagFee |-> Num(0 - 500)]}
        CashShapes ==
            {NoKeys, [cashTip |-> Num(1000)], [cash_tip |-> Num(1000)],
             [tipCash |-> Num(1000)], [cashTip |-> Num(0)]}
        DigitalShapes ==
            {NoKeys, [digitalTip |-> Num(2000)], [tipDigital |-> Num(2000)],
             [digitalTip |-> Num(0)]}
        TipShapes == {NoKeys, [tip |-> Num(5000)], [tipAmount |-> Num(5000)]}
        TypeShapes ==
            {NoKeys, [tipType |-> Str(<<"C", "a", "s", "h">>)],
             [tipType |-> Str(<<"u", "n", "k", "n", "o", "w", "n">>)],
             [tip_type |-> Str(Digital)], [tip_method |-> Str(Cash)],
             [tipType |-> Str(<<"C", "a", "s", "h", " ", "a", "p", "p">>)]}
        PreGratShapes == {NoKeys, [preGrat |-> Num(500)], [pregrat |-> Num(500)]}
        DateShapes == {NoKeys, [date |-> [y |-> 2024, m |-> 3, d |-> 1]]}
    IN {[id |-> Num(1)] @@ d @@ b @@ c @@ g @@ t @@ m @@ p :
           d \in DateShapes, b \in BagShapes, c \in CashShapes,
           g \in DigitalShapes, t \in TipShapes, m \in TypeShapes,
           p \in PreGratShapes}

\* rows of ll_loops
StoredLoopRows ==
    {[id |-> 1, user_id |-> UserId, date |-> [y |-> 2024, m |-> 3, d |-> 1],
      bag_fee |-> v, cash_tip |-> w, digital_tip |-> 0, pre_grat |-> 0,
      mileage_miles |-> MaxMiles, mileage_cost |-> MaxMiles * DefaultMileageRate] :
        v \in StoredAmounts \cup {BagFee}, w \in StoredAmounts}

\* what loops earned: bag fee, cash tip, digital tip, pre-gratuity
Earnings ==
    {<<5000, 1000, 0, 0>>, <<6000, 0, 2000, 0>>, <<4000, 0, 0, 500>>,
     <<0, 0, 0, 0>>, <<0, 1000, 0, 0>>}
MaxBatch == 3
Batches == UNION {[1..n -> Earnings] : n \in 0..MaxBatch}

\* the text "HH:MM" of a time of day
Clock(h, m) ==
    Str(<<Digits[(h \div 10) + 1], Digits[(h % 10) + 1], ":",
          Digits[(m \div 10) + 1], Digits[(m % 10) + 1]>>)
\* the report, tee and end times loops were saved with: a full round, an end
\* before the tee time, each time left empty in turn, a text that is no
\* time, no times at all, and three equal times
Rounds ==
    LET none == Str(<<>>)
    IN {<<Clock(8, 0), Clock(9, 0), Clock(13, 30)>>,
        <<Clock(8, 0), Clock(9, 0), Clock(8, 30)>>,
        <<none, Clock(9, 0), Clock(13, 0)>>,
        <<Clock(8, 0), none, Clock(13, 0)>>,
        <<Clock(8, 0), Clock(9, 0), none>>,
        <<Clock(7, 30), Str(<<"s", "o", "o", "n">>), Clock(12, 0)>>,
        <<none, none, none>>,
        <<Clock(9, 0), Clock(9, 0), Clock(9, 0)>>}
\* the most loops of a timed batch
MaxTimed == 2
TimedBatches == UNION {[1..n -> Rounds] : n \in 0..MaxTimed}
\* the loops of a timed batch as ll_loops rows, each with the same bag fee
TimedRows(batch) ==
    [i \in DOMAIN batch |->
        [id |-> i, user_id |-> UserId, date |-> [y |-> 2024, m |-> 3, d |-> 1],
         bag_fee |-> BagFee, cash_tip |-> 0, digital_tip |-> 0, pre_grat |-> 0,
         mileage_miles |-> 0, mileage_cost |-> 0,
         report_time |-> OrNull(batch[i][1]), tee_time |-> OrNull(batch[i][2]),
         end_time |-> OrNull(batch[i][3])]]
\* the loops of a batch as ll_loops rows, and as the Income page reads them
BatchRows(batch) ==
    [i \in DOMAIN batch |->
        [id |-> i, user_id |-> UserId, date |-> [y |-> 2024, m |-> 3, d |-> 1],
         bag_fee |-> batch[i][1], cash_tip |-> batch[i][2],
         digital_tip |-> batch[i][3], pre_grat |-> batch[i][4],
         mileage_miles |-> 0, mileage_cost |-> 0]]
BatchStored(batch) ==
    [i \in DOMAIN batch |->
        [id |-> Num(i), date |-> [y |-> 2024, m |-> 3, d |-> 1],
         bagFee |-> Num(batch[i][1]), tipCash |-> Num(batch[i][2]),
         tipDigital |-> Num(batch[i][3]), preGrat |-> Num(batch[i][4])]]

\* the loop-type facets of the Insights page
Facets == {"all", "single", "double", "forecaddie"}
\* the loop types of stored loops, each with the facets other than "all"
\* that keep it: the three types of the form, other spellings, a type naming
\* two, a type naming none, the empty text, and NULL as <<>> marks it
Typed ==
    <<[type |-> Str(<<"S", "i", "n", "g", "l", "e">>), kept |-> {"single"}],
      [type |-> Str(<<"D", "o", "u", "b", "l", "e">>), kept |-> {"double"}],
      [type |-> Str(<<"F", "o", "r", "e", "c", "a", "d", "d", "i", "e">>),
       kept |-> {"forecaddie"}],
      [type |-> Str(<<"D", "O", "U", "B", "L", "E", " ", "b", "a", "g">>),
       kept |-> {"double"}],
      [type |-> Str(<<"f", "o", "r", "e">>), kept |-> {"forecaddie"}],
      [type |-> Str(<<"s", "i", "n", "g", "l", "e", "/", "d", "o", "u", "b", "l", "e">>),
       kept |-> {"single", "double"}],
      [type |-> Str(<<"W", "a", "l", "k">>), kept |-> {}],
      [type |-> Str(<<>>), kept |-> {}],
      [type |-> Null, kept |-> {}]>>
\* the most loops of a typed batch
MaxTyped == 2
TypedBatches == UNION {[1..n -> DOMAIN Typed] : n \in 0..MaxTyped}
\* the loops of a typed batch as ll_loops rows: row i has the type batch[i]
TypedRows(batch) ==
    [i \in DOMAIN batch |->
        [id |-> i, user_id |-> UserId, date |-> [y |-> 2024, m |-> 3, d |-> 1],
         bag_fee |-> BagFee, cash_tip |-> 0, digital_tip |-> 0, pre_grat |-> 0,
         mileage_miles |-> 0, mileage_cost |-> 0,
         loop_type |-> Typed[batch[i]].type]]

\* what JSON.parse hands to the loaders from localStorage "loops": a list
\* whose elements are persisted loops (one with an unparsable bag fee and an
\* unknown tip type among them) or the JSON value null
MaxParsed == 2
ParsedElements ==
    {Null,
     [id |-> Num(1), bagFee |-> Num(BagFee), cashTip |-> Num(1000)],
     [id |-> Num(2), bagFee |-> Str(<<"n", "/", "a">>), tip |-> Num(5000),
      tipType |-> Str(<<"u", "n", "k", "n", "o", "w", "n">>)]}
ParsedLists == UNION {[1..n -> ParsedElements] : n \in 0..MaxParsed}

InitRecords ==
    /\ subs = <<>>
    /\ loopsCache = <<>>
    /\ expensesCache = <<>>
    /\ settingsCache = Null
    /\ dbLoops = [k \in LoopIds |-> Null]
    /\ dbExpenses = [k \in ExpenseIds |-> Null]
    /\ dbSettings = Null
    /\ calls = [t \in Tasks |-> Idle]
    /\ started = 0
    /\ mounts = 0
    /\ called = <<>>
    /\ view = [p \in Pages |-> EmptyView]
    /\ page = "none"
    /\ form = BlankForm
    /\ draft = BlankDraft
    /\ alerted = ""
    /\ now = [y |-> 2024, m |-> 3, d |-> 10, ms |-> 0]
    /\ tz = 0
    /\ rangeKey = "MTD"
    /\ shown = Null
    /\ \/ \E l \in StoredLoops : raw = [kind |-> "stored", value |-> l]
       \/ \E r \in StoredLoopRows : raw = [kind |-> "row", value |-> r]
       \/ \E b \in Batches : raw = [kind |-> "rows", value |-> BatchRows(b)]
       \/ \E b \in TimedBatches : raw = [kind |-> "rows", value |-> TimedRows(b)]
       \/ \E b \in Batches : raw = [kind |-> "loops", value |-> BatchStored(b)]
       \/ \E p \in ParsedLists : raw = [kind |-> "parsed", value |-> p]
       \/ \E b \in TypedBatches :
            raw = [kind |-> "typed", value |-> TypedRows(b), types |-> b]
    /\ out = Null

\* the function `by` returns `value`; `prev` is its argument when that was
\* itself a result of `by`; raw is what was handed over first: a persisted
\* loop ("stored"), a row of ll_loops ("row"), or a list of either
Returned(by, n, value, prev) ==
    /\ out' = [by |-> by, n |-> n, value |-> value, prev |-> prev]
    /\ UNCHANGED <<subs, cacheVars, dbVars, calls, budget, called, uiVars,
                   alerted, now, tz, rangeKey, shown, raw>>

\* Income.tsx useAllLoops: parsed.map((l) => normalizeLoop(l))
IncomeNormalize ==
    /\ raw # Null /\ raw.kind = "stored" /\ out = Null
    /\ Returned("Income", 1, IncomeNormalizeLoop(raw.value, now, tz), Null)
\* the Income page normalizes what it normalized
IncomeNormalizeAgain ==
    /\ out # Null /\ out.by = "Income" /\ out.n = 1
    /\ Returned("Income", 2, IncomeNormalizeLoop(out.value, now, tz), out.value)

\* getLoops of the localStorage storage module: parsed.map(normalizeLoop),
\* written back
getLoopsNormalize ==
    /\ raw # Null /\ raw.kind = "stored" /\ out = Null
    /\ Returned("getLoops", 1, normalizeLoop(raw.value), Null)
\* the next getLoops reads what was written back
getLoopsNormalizeAgain ==
    /\ out # Null /\ out.by = "getLoops" /\ out.n = 1
    /\ Returned("getLoops", 2, normalizeLoop(out.value), out.value)

\* storage.ts: (data ?? []).map(loopFromDb)
mapLoopFromDb ==
    /\ raw # Null /\ raw.kind = "row" /\ out = Null
    /\ Returned("loopFromDb", 1, loopFromDb(raw.value), Null)
mapLoopFromDbAgain ==
    /\ out # Null /\ out.by = "loopFromDb" /\ out.n = 1
    /\ Returned("loopFromDb", 2, loopFromDb(out.value), out.value)

\* Insights.tsx: the loops of the cache, range "all", loop type "all"
InsightsTotals ==
    /\ raw # Null /\ raw.kind = "rows" /\ out = Null
    /\ Returned("totals", 1,
          totals(InsightsFiltered(Map(loopFromDb, raw.value), "all", now, tz).loops),
          Null)

\* Income.tsx: summarize(filterLoops(loops, "all"))
IncomeSummarize ==
    /\ raw # Null /\ raw.kind = "loops" /\ out = Null
    /\ Returned("summarize", 1,
          LET sum == summarize([i \in DOMAIN raw.value |->
                                   IncomeNormalizeLoop(raw.value[i], now, tz)])
          IN sum @@ [shares |-> [k \in {"bag", "pregrat", "cash", "digital"} |->
                                   pct(sum, sum[k])]],
          Null)

\* a test for the whole text instead of a part of it
includesWhole(t, sub) == t = sub
\* String.prototype.includes
includes(t, sub) ==
    \E i \in 0..(Len(t) - Len(sub)) : SubSeq(t, i + 1, i + Len(sub)) = sub
\* Insights.tsx filteredLoops, step 2: the loop-type facet over the loops that
\* passed the date filter
byLoopType(byDate, loopType) ==
    IF loopType = "all" THEN byDate
    ELSE LET typeOf(l) ==
                 LET a == Get(l, "loopType")
                     b == Get(l, "loop_type")
                     falsy == {Null, Undefined, Str(<<>>)}
                 IN toLowerCase(String(IF a \notin falsy THEN a
                                       ELSE IF b \notin falsy THEN b
                                       ELSE Str(<<>>)).str)
             keeps(l) ==
                 IF loopType = "single"
                   THEN includes(typeOf(l), <<"s", "i", "n", "g", "l", "e">>)
                 ELSE IF loopType = "double"
                   THEN includes(typeOf(l), <<"d", "o", "u", "b", "l", "e">>)
                 ELSE IF loopType = "forecaddie"
                   THEN includes(typeOf(l), <<"f", "o", "r", "e">>)
                 ELSE TRUE
         IN SelectSeq(byDate, keeps)
\* Insights.tsx: the loops of the cache, range "all", under a loop-type facet
InsightsFilteredLoops ==
    /\ raw # Null /\ raw.kind = "typed" /\ out = Null
    /\ \E loopType \in Facets :
         Returned("filteredLoops", 1,
            [loopType |-> loopType,
             loops |-> byLoopType(
                 InsightsFiltered(Map(loopFromDb, raw.value), "all", now, tz).loops,
                 loopType)],
            Null)

\* reading a property of null or undefined raises a TypeError
TypeError(l) == l \in {Null, Undefined}
\* parsed.map(f) inside try { ... } catch { return [] }: the first element
\* that raises ends the map, and the catch block answers the empty list
TryMap(f(_), parsed) ==
    IF \E i \in DOMAIN parsed : TypeError(parsed[i])
    THEN <<>>
    ELSE [i \in DOMAIN parsed |-> f(parsed[i])]
\* Income.tsx useAllLoops: the whole list of localStorage "loops"
useAllLoops ==
    /\ raw # Null /\ raw.kind = "parsed" /\ out = Null
    /\ Returned("useAllLoops", 1,
          LET normalize(l) == IncomeNormalizeLoop(l, now, tz)
          IN TryMap(normalize, raw.value),
          Null)
\* getLoops of the localStorage storage module: the whole list
getLoops ==
    /\ raw # Null /\ raw.kind = "parsed" /\ out = Null
    /\ Returned("getLoopsAll", 1, TryMap(normalizeLoop, raw.value), Null)

NextRecords ==
    \/ IncomeNormalize
    \/ IncomeNormalizeAgain
    \/ getLoopsNormalize
    \/ getLoopsNormalizeAgain
    \/ mapLoopFromDb
    \/ mapLoopFromDbAgain
    \/ InsightsTotals
    \/ IncomeSummarize
    \/ useAllLoops
    \/ getLoops
    \/ InsightsFilteredLoops

\* the normalizers and aggregations applied to persisted records
SpecRecords == InitRecords /\ [][NextRecords]_vars

(* ======================== the claims, C1 .. ============================ *)

\* the call of task t returns in this step (its last continuation runs)
Returns(t) ==
    /\ calls[t].pc = "response"
    /\ ~calls[t].res.error
    /\ calls[t].op = "refreshAll" => calls[t].stage = "expenses"
    /\ calls'[t].pc # calls[t].pc

\* the call of task t throws in this step
ThrowsNow(t) ==
    IF calls[t].pc = "user" THEN calls'[t].pc = "idle"
    ELSE calls[t].pc = "response" /\ calls[t].res.error /\ calls'[t].pc # calls[t].pc

\* the entries of a cache other than those with the given id, in order
Others(cache, id) == SelectSeq(cache, LAMBDA x : x.id # id)

\* what a reader of the three getters sees
Getters(L, E, S) == [loops |-> L, expenses |-> E, settings |-> S]

\* C1 (as claimed): a refreshAll that throws, at whichever step, has changed
\* none of the three caches and runs no subscriber.
C1_FailedRefreshKeepsCaches ==
    [][\A t \in Tasks :
         (calls[t].op = "refreshAll" /\ ThrowsNow(t)) =>
            /\ ~calls[t].dirty
            /\ UNCHANGED cacheVars
            /\ called' = <<>>]_vars

\* C2: a successful saveLoop, updateLoopMileage or saveExpense returning s
\* leaves s as the first entry of its cache and the only one with s.id; the
\* other entries are the former ones, unchanged and in their former order;
\* when the cache held a prior version of s the number of entries is unchanged.
UpsertedInto(old, new, s) ==
    /\ new # <<>>
    /\ Head(new) = s
    /\ Count(new, s.id) = 1
    /\ Tail(new) = Others(old, s.id)
    /\ Count(old, s.id) = 1 => Len(new) = Len(old)
C2_UpsertReplacesById ==
    [][\A t \in Tasks :
         Returns(t) =>
            /\ calls[t].op \in {"saveLoop", "updateLoopMileage"} =>
                 UpsertedInto(loopsCache, loopsCache', loopFromDb(calls[t].res.data))
            /\ calls[t].op = "saveExpense" =>
                 UpsertedInto(expensesCache, expensesCache',
                              expenseFromDb(calls[t].res.data))]_vars

\* C2 witness: an edited loop (loop 1, saved with its new mileage) has
\* replaced its prior version at the head of a cache of the same length,
\* the other loop following it.
C2_Witness ==
    /\ Len(loopsCache) = 2
    /\ loopsCache[1].id = 1
    /\ loopsCache[1].mileage_miles = MaxMiles
    /\ loopsCache[1].date = MaxDate
    /\ loopsCache[2] = loopFromDb(ReturningLoops[2])
    /\ Quiet

\* C3: every call that returns runs each registered subscriber exactly once,
\* after the cache update: Home's and Insights' callbacks read the caches as
\* the call left them.
C3_NotifiesEachOnceAfterUpdate ==
    [][\A t \in Tasks :
         Returns(t) =>
            /\ \A fn \in Callbacks :
                 Cardinality({i \in DOMAIN called' : called'[i] = fn})
                    = IF fn \in Range(subs) THEN 1 ELSE 0
            /\ "home" \in Range(subs) =>
                 view'["home"] = Getters(loopsCache', expensesCache', settingsCache')
            /\ "insights" \in Range(subs) =>
                 view'["insights"].loops = loopsCache'
            /\ calls[t].op = "saveLoop" /\ "home" \in Range(subs) =>
                 Head(view'["home"].loops) = loopFromDb(calls[t].res.data)]_vars

\* C3 witness: two subscribers were just run, and Home's state holds a
\* saved loop that is in the cache.
C3_Witness ==
    /\ Len(called) = 2
    /\ "home" \in Range(called)
    /\ loopsCache # <<>>
    /\ Head(loopsCache).mileage_miles = MaxMiles
    /\ view["home"].loops = loopsCache

\* C4: a saveLoop, updateLoopMileage, deleteLoop, saveExpense, deleteExpense
\* or saveSettings that throws (user lookup or store) changes no cache and
\* runs no subscriber.
C4_FailedWriteKeepsCaches ==
    [][\A t \in Tasks :
         (calls[t].op \notin {"none", "refreshAll"} /\ ThrowsNow(t)) =>
            /\ UNCHANGED cacheVars
            /\ called' = <<>>
            /\ view' = view]_vars

\* C4 witness: the store has rejected a saveLoop while subscribers are
\* registered and the cache is loaded; the failure is about to be raised.
C4_Witness ==
    \E t \in Tasks :
        /\ Awaiting(t, "saveLoop", "row", "response")
        /\ calls[t].res.error
        /\ subs # <<>>
        /\ loopsCache # <<>>

\* C5: a refreshAll is not cancelled by what completes while it is in
\* flight: when its loops response is delivered, the loops cache becomes
\* exactly the rows that response carries, whatever the cache held.
C5_RefreshWritesItsSnapshot ==
    [][\A t \in Tasks :
         (Awaiting(t, "refreshAll", "loops", "response") /\ ~calls[t].res.error
            /\ calls'[t].pc # calls[t].pc) =>
              /\ Len(loopsCache') = Len(calls[t].res.data)
              /\ \A i \in DOMAIN loopsCache' :
                    loopsCache'[i].id = calls[t].res.data[i].id]_vars

\* C5 witness: the store holds loop MaxLoopId and nothing else, the saveLoop
\* that wrote it has completed (it had left the cache equal to the store),
\* and a refreshAll that had read the store before that save has since
\* emptied the loops cache.
C5_StaleRefreshOverwrote ==
    \E t \in Tasks :
        /\ calls[t].op = "refreshAll"
        /\ calls[t].stage = "expenses"
        /\ \A u \in Tasks \ {t} : Free(u)
        /\ dbLoops[MaxLoopId] # Null
        /\ \A k \in LoopIds \ {MaxLoopId} : dbLoops[k] = Null
        /\ loopsCache = <<>>

C10_DeleteRemovesById ==
    [][\A t \in Tasks :
         Returns(t) =>
            /\ calls[t].op = "deleteLoop" =>
                 /\ dbLoops[calls[t].arg.id] = Null
                 /\ calls[t].arg.id \notin Ids(loopsCache')
                 /\ loopsCache' = Others(loopsCache, calls[t].arg.id)
                 /\ called' = subs
                 /\ "home" \in Range(subs) => view'["home"].loops = loopsCache'
            /\ calls[t].op = "deleteExpense" =>
                 /\ dbExpenses[calls[t].arg.id] = Null
                 /\ calls[t].arg.id \notin Ids(expensesCache')
                 /\ expensesCache' = Others(expensesCache, calls[t].arg.id)
                 /\ called' = subs
                 /\ "home" \in Range(subs) =>
                      view'["home"].expenses = expensesCache']_vars

\* C10 witness: loop 1 has been deleted from a loaded cache: store and cache
\* hold loop 2 only, and Home was notified of it.
C10_Witness ==
    /\ dbLoops[1] = Null
    /\ dbLoops[2] # Null
    /\ Ids(loopsCache) = {2}
    /\ called = <<"home">>
    /\ view["home"].loops = loopsCache

\* the loop list of the Loops page holds loop l with l's mileage
Lists(list, l) ==
    \E i \in DOMAIN list :
        /\ list[i].id = l.id
        /\ list[i].mileage_miles = l.mileage_miles
        /\ list[i].mileage_cost = l.mileage_cost

\* the add-loop workflow of task t finishes successfully in this step
WorkflowFinishes(t) ==
    /\ calls[t].chain = "onSave"
    /\ calls[t].op = "refreshAll"
    /\ calls[t].live
    /\ Returns(t)

\* C6 (as claimed): when the add-loop workflow finishes successfully, the
\* loop list the Loops page then reads holds the saved loop with the mileage
\* of that save, whatever other refreshAll calls are in flight.
C6_ListHasSavedLoop ==
    [][\A t \in Tasks :
         WorkflowFinishes(t) =>
            Lists(view'["loops"].loops, calls[t].loc.loop)]_vars

\* C6 (amended): when the add-loop workflow finishes successfully and no
\* other storage call was in flight from the moment it called saveLoop, the
\* loop list the Loops page then reads holds the saved loop with the mileage
\* of that save.
C6_ListHasSavedLoopWhenAlone ==
    [][\A t \in Tasks :
         (WorkflowFinishes(t) /\ calls[t].alone) =>
            Lists(view'["loops"].loops, calls[t].loc.loop)]_vars

\* C6 witness: a workflow that ran with no other call in flight has received
\* the last answer of its own refreshAll, after saveLoop and
\* updateLoopMileage succeeded, and the cache it is about to read holds the
\* loop it saved with a computed mileage.
C6_Witness ==
    \E t \in Tasks :
        /\ Awaiting(t, "refreshAll", "expenses", "response")
        /\ calls[t].chain = "onSave"
        /\ calls[t].live
        /\ calls[t].alone
        /\ ~calls[t].res.error
        /\ calls[t].loc.computed # NaN
        /\ Lists(loopsCache, calls[t].loc.loop)

\* task t is inside the saveLoop call of the add/edit-loop workflow
WorkflowSave(t) == calls[t].chain = "onSave" /\ calls[t].op = "saveLoop"

\* C8: in the add/edit-loop workflow saveLoop is called by the step in which
\* the mileage estimate resolves, and that step touches neither store nor
\* cache; a step of that saveLoop changes a cache or notifies only when it
\* receives the store's answer without error, and then the cache has the
\* loop first and every subscriber is run on the changed cache; while the
\* upsert of a new loop has not reached the store, no cache and no page
\* holds that loop.
C8_PersistThenCacheThenNotify ==
    [][\A t \in Tasks :
         /\ (calls'[t].chain = "onSave" /\ calls'[t].op = "saveLoop"
               /\ calls[t].op # "saveLoop") =>
               /\ calls[t].pc = "mileage"
               /\ calls'[t].pc = "user"
               /\ UNCHANGED <<cacheVars, dbVars>>
               /\ called' = <<>>
         /\ (WorkflowSave(t) /\ calls'[t].pc # calls[t].pc) =>
               IF calls[t].pc = "response" /\ ~calls[t].res.error
               THEN /\ calls[t].res.data # Null
                    /\ Head(loopsCache').id = calls[t].arg.id
                    /\ called' = subs
                    /\ \A p \in Range(called') : view'[p].loops = loopsCache'
               ELSE /\ UNCHANGED cacheVars
                    /\ called' = <<>>
         /\ (WorkflowSave(t) /\ calls[t].pc \in {"user", "request"}
               /\ calls[t].loc.form.id = 0) =>
               /\ calls[t].arg.id \notin Ids(loopsCache)
               /\ \A p \in Pages : calls[t].arg.id \notin Ids(view[p].loops)]_vars

\* C8 witness: the saveLoop of a workflow adding a new loop has just returned:
\* the store holds the loop, the cache has it first, and Home, mounted while
\* the save was in flight, has been notified and shows the changed cache.
C8_Witness ==
    \E t \in Tasks :
        /\ calls[t].chain = "onSave"
        /\ calls[t].op = "updateLoopMileage"
        /\ calls[t].pc = "user"
        /\ calls[t].loc.form.id = 0
        /\ dbLoops[calls[t].loc.loop.id] # Null
        /\ loopsCache # <<>>
        /\ Head(loopsCache).id = calls[t].loc.loop.id
        /\ called = <<"home">>
        /\ view["home"].loops = loopsCache

\* C9: the loop returned by the workflow's saveLoop, and again by its
\* updateLoopMileage, has the mileage the form held before the save when the
\* collaborator gave no result, and otherwise d miles at d times the mileage
\* rate of the settings read when saving (DefaultMileageRate without settings).
C9_MileageKeptOrComputed ==
    [][\A t \in Tasks :
         (calls[t].chain = "onSave"
            /\ calls[t].op \in {"saveLoop", "updateLoopMileage"}
            /\ Returns(t)) =>
               LET saved == loopFromDb(calls[t].res.data)
                   L == calls[t].loc
                   rate == IF L.s = Null THEN DefaultMileageRate
                           ELSE L.s.mileageRate
               IN IF L.computed = NaN
                  THEN /\ saved.mileage_miles = L.form.mileage_miles
                       /\ saved.mileage_cost = L.form.mileage_cost
                  ELSE /\ saved.mileage_miles = L.computed
                       /\ saved.mileage_cost = L.computed * rate]_vars

\* C9 witness: a loop edited with a mileage of MaxMiles was saved while the
\* collaborator gave no result; saveLoop and updateLoopMileage have returned
\* and the store still holds MaxMiles and its cost for that loop.
C9_Witness ==
    \E t \in Tasks :
        /\ calls[t].chain = "onSave"
        /\ calls[t].op = "refreshAll"
        /\ calls[t].loc.computed = NaN
        /\ calls[t].loc.form.mileage_miles = MaxMiles
        /\ dbLoops[calls[t].loc.loop.id] # Null
        /\ dbLoops[calls[t].loc.loop.id].mileage_miles = MaxMiles
        /\ dbLoops[calls[t].loc.loop.id].mileage_cost
              = MaxMiles * DefaultMileageRate

\* the handlers of the two entry pages that write to the store
Handlers == {"onSave", "onDelete", "submitExpense", "removeExpense"}

\* the failure message the user is to see for each handler
Reported(chain) ==
    IF chain = "onSave" THEN "Failed to save loop. Please try again."
    ELSE IF chain = "onDelete" THEN "Failed to delete loop. Please try again."
    ELSE IF chain = "submitExpense"
      THEN "Failed to save expense. Please try again."
    ELSE "Failed to delete expense. Please try again."

\* C11: when a storage call awaited by onSave, onDelete, submitExpense or
\* removeExpense throws (the user lookup or any store operation failed), the
\* same step shows that handler's failure alert and leaves the loop form and
\* the expense form as the user filled them; while a page stays mounted its
\* form goes back to blank only in the step in which its save workflow
\* finishes successfully.
C11_FailureAlertsAndKeepsForm ==
    [][/\ \A t \in Tasks :
            (calls[t].chain \in Handlers /\ ThrowsNow(t)) =>
               /\ alerted' = Reported(calls[t].chain)
               /\ form' = form
               /\ draft' = draft
       /\ (form # BlankForm /\ form' = BlankForm /\ page' = page) =>
             \E t \in Tasks : WorkflowFinishes(t)
       /\ (draft # BlankDraft /\ draft' = BlankDraft /\ page' = page) =>
             \E t \in Tasks :
                /\ calls[t].chain = "submitExpense"
                /\ calls[t].op = "refreshAll"
                /\ calls[t].live
                /\ Returns(t)]_vars

\* C11 witness: submitExpense stored the new expense, its refresh then
\* failed: the failure alert is up and the entry form still holds the input.
C11_Witness ==
    /\ page = "expenses"
    /\ alerted = "Failed to save expense. Please try again."
    /\ draft = [date |-> MaxDate, amount |-> ExpenseAmount]
    /\ \E k \in ExpenseIds :
          /\ dbExpenses[k] # Null
          /\ dbExpenses[k].amount = ExpenseAmount

\* the calendar day of a Date, and the number of days in a range key
DayOf(dt) == [y |-> dt.y, m |-> dt.m, d |-> dt.d]
WindowDays(key) == IF key = "7D" THEN 7 ELSE IF key = "14D" THEN 14 ELSE 30

\* C12: the window the Loops page gets from getDateRange(rangeKey, now) ends
\* at 23:59:59.999 of now's day and starts at local midnight of the day
\* N - 1 days before now's day for 7D / 14D / 30D, of the first of now's
\* month for MTD, of January 1 of now's year for YTD; for ALL both bounds
\* are null; start <= end for every bounded key; on 2024-03-10 the 7D
\* window holds 2024-03-04 and not 2024-03-03.
C12_RangeResolved ==
    page = "loops" =>
       LET r == shown.range
       IN IF rangeKey = "ALL" THEN r = [start |-> Null, end |-> Null]
          ELSE /\ r.end = [now EXCEPT !.ms = EndOfDay]
               /\ r.start.ms = 0
               /\ Leq(r.start, r.end)
               /\ rangeKey \in {"7D", "14D", "30D"} =>
                     DayNumber(DayOf(r.start))
                        = DayNumber(DayOf(now)) - (WindowDays(rangeKey) - 1)
               /\ rangeKey = "MTD" =>
                     DayOf(r.start) = [y |-> now.y, m |-> now.m, d |-> 1]
               /\ rangeKey = "YTD" =>
                     DayOf(r.start) = [y |-> now.y, m |-> 1, d |-> 1]
               /\ (rangeKey = "7D"
                     /\ DayOf(now) = [y |-> 2024, m |-> 3, d |-> 10]) =>
                     /\ isWithinRange([y |-> 2024, m |-> 3, d |-> 4], r)
                     /\ ~isWithinRange([y |-> 2024, m |-> 3, d |-> 3], r)

\* C12 witness: at noon of 2024-03-01 the 30D window of the Loops page
\* starts at midnight of 2024-02-01, 29 days back across the leap day.
C12_Witness ==
    /\ page = "loops"
    /\ rangeKey = "30D"
    /\ now = [y |-> 2024, m |-> 3, d |-> 1, ms |-> 43200000]
    /\ shown.range.start = [y |-> 2024, m |-> 2, d |-> 1, ms |-> 0]
    /\ shown.range.end = [y |-> 2024, m |-> 3, d |-> 1, ms |-> EndOfDay]

\* the range key a selector value stands for (Insights spells them in
\* lower case)
Canonical(key) ==
    IF key = "7d" THEN "7D" ELSE IF key = "14d" THEN "14D"
    ELSE IF key = "30d" THEN "30D" ELSE IF key = "mtd" THEN "MTD"
    ELSE IF key = "ytd" THEN "YTD" ELSE IF key = "all" THEN "ALL" ELSE key

\* C13 (as claimed): with a bounded range key, no page lists or totals a
\* record whose date is missing or cannot be parsed, and the caches keep
\* every record.
C13_UndatedNeverShown ==
    /\ (shown # Null /\ Canonical(rangeKey) # "ALL") =>
          \A x \in Range(shown.loops) \cup Range(shown.expenses) :
             x.date \notin {Missing, Garbage}
    /\ shown # Null => Len(loopsCache) = 2 /\ Len(expensesCache) = 2

\* C14 (as claimed): with range key ALL, each page that has the selector
\* lists and totals every cached record of the kinds it shows.
C14_AllShowsEverything ==
    (shown # Null /\ Canonical(rangeKey) = "ALL") =>
       /\ page \in {"loops", "home", "insights"} =>
             Range(shown.loops) = Range(loopsCache)
       /\ page \in {"expenses", "home"} =>
             Range(shown.expenses) = Range(expensesCache)

\* C15 (as claimed): with a bounded range key, Home and Insights list a
\* loop dated by a calendar day exactly when isWithinRange holds of that
\* date in the window getDateRange resolves for the same key and clock.
C15_PagesAgreeWithResolver ==
    (shown # Null /\ page \in {"home", "insights"}
       /\ Canonical(rangeKey) # "ALL") =>
          \A l \in Range(loopsCache) :
             IsYmd(l.date) =>
                (l \in Range(shown.loops)
                   <=> isWithinRange(l.date,
                                     getDateRange(Canonical(rangeKey), now)))

\* the monetary fields of a loop record
MoneyFields == {"bagFee", "cashTip", "digitalTip", "preGrat"}

\* C16: in every state every monetary field of every cached record (bagFee,
\* cashTip, digitalTip and preGrat of a loop, amount of an expense) is a
\* number >= 0, whatever the store returned
C16_CachedMoneyNeverNegative ==
    /\ \A l \in Range(loopsCache) : \A f \in MoneyFields : l[f] # NaN /\ l[f] >= 0
    /\ \A e \in Range(expensesCache) : e.amount # NaN /\ e.amount >= 0

\* a persisted loop has been normalized once, by the Income page or by getLoops
Normalized == out # Null /\ out.n = 1 /\ out.by \in {"Income", "getLoops"}
\* the amount a persisted value states, 0 when it states none
Amount(v) == IF IsNum(v) THEN v.num ELSE 0
\* the explicit tips of a persisted loop, under the canonical names
ExplicitCash(l) == Amount(Coalesce(Get(l, "cashTip"), Get(l, "cash_tip")))
ExplicitDigital(l) == Amount(Coalesce(Get(l, "digitalTip"), Get(l, "digital_tip")))
\* no explicit tip under any name the schema has used
NoExplicit(l) ==
    \A k \in {"cashTip", "cash_tip", "tipCash", "tip_cash",
              "digitalTip", "digital_tip", "tipDigital", "tip_digital"} :
       Amount(Get(l, k)) = 0
\* the single tip of the old schema and its discriminator, lower-cased
LegacyTip(l) == Amount(Get(l, "tip"))
Discriminator(l) ==
    toLowerCase(Coalesce(Get(l, "tipType"),
                   Coalesce(Get(l, "tip_type"),
                      Coalesce(Get(l, "tip_method"), Str(<<>>)))).str)
\* the tips of a normalized loop
CashOf(o) == IF o.by = "Income" THEN o.value.tipCash.num ELSE o.value.cashTip.num
DigitalOf(o) ==
    IF o.by = "Income" THEN o.value.tipDigital.num ELSE o.value.digitalTip.num

\* C17: a persisted loop without a non-zero explicit tip and with a single
\* tip t > 0 is normalized with the whole of t as cashTip when its tip type
\* starts with "cash" (in any case), and as digitalTip otherwise (type
\* "digit...", absent or unrecognised); the other tip is 0
C17_LegacyTipRouted ==
    (Normalized /\ NoExplicit(raw.value) /\ LegacyTip(raw.value) > 0) =>
        IF startsWith(Discriminator(raw.value), Cash)
        THEN CashOf(out) = LegacyTip(raw.value) /\ DigitalOf(out) = 0
        ELSE CashOf(out) = 0 /\ DigitalOf(out) = LegacyTip(raw.value)

\* C18: when a persisted loop has a non-zero explicit cash or digital tip
\* (cashTip / cash_tip, digitalTip / digital_tip) the normalized tips are the
\* explicit ones and its single tip is ignored; when it has no non-zero
\* explicit tip its single tip is what the normalized tips add up to
C18_ExplicitTipsFirst ==
    Normalized =>
        /\ (ExplicitCash(raw.value) > 0 \/ ExplicitDigital(raw.value) > 0) =>
              /\ CashOf(out) = ExplicitCash(raw.value)
              /\ DigitalOf(out) = ExplicitDigital(raw.value)
        /\ (NoExplicit(raw.value) /\ LegacyTip(raw.value) > 0) =>
              CashOf(out) + DigitalOf(out) = LegacyTip(raw.value)

\* the fields a normalizer fills in
FieldsOf(by) ==
    IF by = "Income"
    THEN {"id", "date", "bagFee", "pregrat", "tipCash", "tipDigital"}
    ELSE {"id", "date", "bagFee", "cashTip", "digitalTip", "preGrat",
          "mileage_miles", "mileage_cost"}

\* C19: a loop normalizer applied to its own result returns that result,
\* field by field
C19_NormalizeIdempotent ==
    (out # Null /\ out.n = 2) =>
        \A f \in FieldsOf(out.by) : Get(out.value, f) = Get(out.prev, f)

\* f[1] + ... + f[n]
RECURSIVE SumTo(_, _)
SumTo(f, n) == IF n = 0 THEN 0 ELSE SumTo(f, n - 1) + f[n]
\* a quotient of non-negative numbers rounded to the nearest whole number
Rounded(q) == (2 * q.n + q.d) \div (2 * q.d)
\* the quotient q is a / b
IsQuotient(q, a, b) == q = Ratio(a, b)
\* the three loops of the scenario: (50, 10, 0, 0), (60, 0, 20, 0), (40, 0, 0, 5)
Scenario == <<<<5000, 1000, 0, 0>>, <<6000, 0, 2000, 0>>, <<4000, 0, 0, 500>>>>
\* the loops aggregated, as bag fee, cash tip, digital tip, pre-gratuity
Aggregated ==
    IF raw.kind = "rows"
    THEN [i \in DOMAIN raw.value |->
            <<raw.value[i].bag_fee, raw.value[i].cash_tip,
              raw.value[i].digital_tip, raw.value[i].pre_grat>>]
    ELSE [i \in DOMAIN raw.value |->
            <<raw.value[i].bagFee.num, raw.value[i].tipCash.num,
              raw.value[i].tipDigital.num, raw.value[i].preGrat.num>>]
Category(k) == SumTo([i \in DOMAIN Aggregated |-> Aggregated[i][k]], Len(Aggregated))
PerLoop ==
    SumTo([i \in DOMAIN Aggregated |->
             Aggregated[i][1] + Aggregated[i][2] + Aggregated[i][3] + Aggregated[i][4]],
          Len(Aggregated))

\* C20: over any list of canonical loops the Insights totals are the four
\* sums per category, totalIncome is their sum and the sum of the loops'
\* own totals, tipsPct is (cashTips + digitalTips + preGrat) / totalIncome
\* x 100 and avgEarningsPerLoop is totalIncome / count; summarize of the
\* Income page returns the same sums, total and average; the scenario's
\* three loops give 185, 19 % and 61.67
C20_TotalsAddUp ==
    /\ (out # Null /\ out.by = "totals") =>
          LET r == out.value
          IN /\ r.bagFees = Category(1) /\ r.cashTips = Category(2)
             /\ r.digitalTips = Category(3) /\ r.preGrat = Category(4)
             /\ r.totalIncome = Category(1) + Category(2) + Category(3) + Category(4)
             /\ r.totalIncome = PerLoop
             /\ r.totalIncome > 0 =>
                   IsQuotient(r.tipsPct,
                              (Category(2) + Category(3) + Category(4)) * 100,
                              r.totalIncome)
             /\ Len(Aggregated) > 0 =>
                   IsQuotient(r.avgEarningsPerLoop, r.totalIncome, Len(Aggregated))
             /\ Aggregated = Scenario =>
                   /\ r.totalIncome = 18500
                   /\ Rounded(r.tipsPct) = 19
                   /\ Rounded(r.avgEarningsPerLoop) = 6167
    /\ (out # Null /\ out.by = "summarize") =>
          LET r == out.value
          IN /\ r.bag = Category(1) /\ r.cash = Category(2)
             /\ r.digital = Category(3) /\ r.pregrat = Category(4)
             /\ r.totalIncome = PerLoop
             /\ Len(Aggregated) > 0 =>
                   IsQuotient(r.avgPerLoop, r.totalIncome, Len(Aggregated))
             /\ Aggregated = Scenario =>
                   r.totalIncome = 18500 /\ Rounded(r.avgPerLoop) = 6167

\* the Insights page has aggregated the three loops of the scenario
C20_Witness ==
    /\ out # Null /\ out.by = "totals"
    /\ Aggregated = Scenario
    /\ out.value.totalIncome = 18500
    /\ out.value.tipsPct = Ratio(350000, 18500)
    /\ out.value.avgEarningsPerLoop = Ratio(18500, 3)

\* the minutes from midnight a text "HH:MM" states: one number, or none
Clocks == [p \in (0..23) \X (0..59) |-> Clock(p[1], p[2])]
Stated(t) ==
    IF t \in {Null, Undefined} THEN {}
    ELSE {p[1] * 60 + p[2] : p \in {q \in DOMAIN Clocks : Clocks[q] = t}}
\* per aggregated row, the minutes between its column `from` and its column
\* `to` when both state a time and `to` is not the earlier one, else -1
Spans(from, to) ==
    [i \in DOMAIN raw.value |->
        LET a == Stated(Get(raw.value[i], from))
            b == Stated(Get(raw.value[i], to))
        IN IF a # {} /\ b # {} /\ (CHOOSE x \in b : TRUE) >= (CHOOSE x \in a : TRUE)
           THEN (CHOOSE x \in b : TRUE) - (CHOOSE x \in a : TRUE)
           ELSE 0 - 1]
SpanCount(from, to) ==
    LET spans == Spans(from, to)
    IN Cardinality({i \in DOMAIN spans : spans[i] >= 0})
SpanSum(from, to) ==
    LET spans == Spans(from, to)
    IN SumTo([i \in DOMAIN spans |-> IF spans[i] >= 0 THEN spans[i] ELSE 0],
             Len(raw.value))
\* the quotient q is the number 0
IsZero(q) == q.n = 0 /\ q.d > 0

\* C21: every ratio of the Insights totals and of the Income summary has a
\* positive denominator (it is never NaN or Infinity), and it is 0 when the
\* quantity it divides by is 0 or less: no loops, no income, no qualifying
\* minutes
C21_RatiosNeverDivideByZero ==
    /\ (out # Null /\ out.by = "totals") =>
          LET r == out.value
          IN /\ \A k \in {"tipsPct", "avgEarningsPerLoop", "onBagPerHour",
                          "overallPerHour", "avgWaitMins", "avgPaceMins"} :
                   r[k].d > 0
             /\ PerLoop <= 0 => IsZero(r.tipsPct)
             /\ Len(raw.value) = 0 => IsZero(r.avgEarningsPerLoop)
             /\ SpanSum("tee_time", "end_time") <= 0 => IsZero(r.onBagPerHour)
             /\ SpanSum("report_time", "end_time") <= 0 => IsZero(r.overallPerHour)
             /\ SpanSum("report_time", "tee_time") <= 0 => IsZero(r.avgWaitMins)
             /\ SpanSum("tee_time", "end_time") <= 0 => IsZero(r.avgPaceMins)
    /\ (out # Null /\ out.by = "summarize") =>
          LET r == out.value
          IN /\ r.avgPerLoop.d > 0
             /\ Len(raw.value) = 0 => IsZero(r.avgPerLoop)
             /\ PerLoop <= 0 => \A k \in DOMAIN r.shares : r.shares[k] = 0

\* the Insights page has aggregated one paid loop whose three times are equal:
\* no minute qualifies, and both $/hour metrics are 0
C21_Witness ==
    /\ out # Null /\ out.by = "totals"
    /\ raw.value = TimedRows(<<<<Clock(9, 0), Clock(9, 0), Clock(9, 0)>>>>)
    /\ out.value.totalIncome = BagFee
    /\ out.value.onBagPerHour = Zero
    /\ out.value.overallPerHour = Zero

\* C22: a loop counts for a time metric exactly when both of its times are
\* stated and the later is not before the earlier (pace and on-bag: tee to
\* end, overall: report to end, wait: report to tee); the averages and the
\* hours are those of the qualifying loops alone
C22_OnlyQualifyingLoopsCount ==
    (out # Null /\ out.by = "totals") =>
        LET r == out.value
        IN /\ r.avgPaceMins =
                 IF SpanCount("tee_time", "end_time") > 0
                 THEN Ratio(SpanSum("tee_time", "end_time"),
                            SpanCount("tee_time", "end_time"))
                 ELSE Zero
           /\ r.avgWaitMins =
                 IF SpanCount("report_time", "tee_time") > 0
                 THEN Ratio(SpanSum("report_time", "tee_time"),
                            SpanCount("report_time", "tee_time"))
                 ELSE Zero
           /\ r.onBagPerHour =
                 IF SpanSum("tee_time", "end_time") > 0
                 THEN Ratio(r.totalIncome * 60, SpanSum("tee_time", "end_time"))
                 ELSE Zero
           /\ r.overallPerHour =
                 IF SpanSum("report_time", "end_time") > 0
                 THEN Ratio(r.totalIncome * 60, SpanSum("report_time", "end_time"))
                 ELSE Zero

\* a full round (08:00, 09:00, 13:30) aggregated with a loop that ended
\* before its tee time (08:00, 09:00, 08:30): the pace is that of the round
C22_Witness ==
    /\ out # Null /\ out.by = "totals"
    /\ raw.value = TimedRows(<<<<Clock(8, 0), Clock(9, 0), Clock(13, 30)>>,
                               <<Clock(8, 0), Clock(9, 0), Clock(8, 30)>>>>)
    /\ out.value.avgPaceMins = Ratio(270, 1)
    /\ out.value.avgWaitMins = Ratio(120, 2)

\* C23: loading a list never loses a record to another one: every element of
\* the parsed list that is a record is in the loaded list, whatever the other
\* elements are, and a field that cannot be read as a number (the bag fee
\* "n/a") has its default 0 in the loaded record
C23_NormalizationNeverRejects ==
    (out # Null /\ out.by \in {"useAllLoops", "getLoopsAll"}) =>
        /\ Len(out.value) >=
              Cardinality({i \in DOMAIN raw.value : raw.value[i] # Null})
        /\ \A j \in DOMAIN out.value :
              out.value[j].bagFee \in {Num(0), Num(BagFee)}

\* restricted to lists whose elements are all records, the loaders keep every
\* record: the one with the unparsable bag fee is loaded with bag fee 0
C23_RecordsOnly ==
    (out # Null /\ out.by \in {"useAllLoops", "getLoopsAll"}
       /\ \A i \in DOMAIN raw.value : raw.value[i] # Null) =>
        /\ Len(out.value) = Len(raw.value)
        /\ \A j \in DOMAIN out.value :
              out.value[j].bagFee =
                 IF IsNum(raw.value[j].bagFee) THEN raw.value[j].bagFee ELSE Num(0)

\* saveExpense, called by submitExpense with the expense e, gets the stored
\* row back in this step and puts the record s in the cache
SavesExpense(t) ==
    /\ Awaiting(t, "saveExpense", "row", "response")
    /\ calls[t].chain = "submitExpense"
    /\ calls'[t].pc # calls[t].pc
    /\ ~calls[t].res.error

\* C24: the record saveExpense puts in the cache for an expense submitted by
\* the expense form has the id, date, vendor, description, category and
\* receipt name of that expense, and its amount as a number
C24_SavedExpenseKeepsFields ==
    [][\A t \in Tasks :
         SavesExpense(t) =>
            \E i \in DOMAIN expensesCache' :
               LET e == calls[t].loc.newExpense
                   s == expensesCache'[i]
               IN /\ s.id = e.id
                  /\ s.date = e.date
                  /\ s.amount = e.amount
                  /\ \A k \in {"vendor", "description", "category", "receiptName"} :
                        Get(s, k) = Get(e, k)]_vars

\* the columns of ll_expenses are kept: id, date, category and amount
C24_ColumnsKept ==
    [][\A t \in Tasks :
         SavesExpense(t) =>
            LET e == calls[t].loc.newExpense
                s == expensesCache'[1]
            IN /\ s.id = e.id
               /\ s.date = e.date
               /\ s.amount = e.amount
               /\ s.category = e.category]_vars

\* the texts of the default bag fees the settings of the cache hold
ConfiguredDefaults(s) ==
    IF s = Null THEN {}
    ELSE {Str(Numeral(v.num)) :
            v \in {s.defaultBagFeeSingle, s.defaultBagFeeDouble,
                   s.defaultBagFeeForecaddie} \ {Null}}

\* C25: while the Loops page stays mounted, a bag-fee input the user has
\* edited does not change to a configured default, except when the form is
\* reset after a successful save: not on a caddie-type change and not when
\* the refreshAll of the page's mount completes
C25_TypedBagFeeKept ==
    [][(/\ page' = page
        /\ form.bagFeeTouched
        /\ form'.bagFeeStr # form.bagFeeStr
        /\ ~\E t \in Tasks : WorkflowFinishes(t)) =>
          form'.bagFeeStr \notin ConfiguredDefaults(settingsCache')]_vars

\* the same for the caddie-type select alone: it writes a default only into
\* an input the user has not edited
C25_SelectKeepsTypedBagFee ==
    [][(/\ page' = page
        /\ calls' = calls
        /\ form.bagFeeTouched
        /\ form'.bagFeeStr # form.bagFeeStr) =>
          form'.bagFeeStr \notin ConfiguredDefaults(settingsCache)]_vars

\* C26: under the facet single, double or forecaddie the Insights page keeps,
\* in order, exactly the loops whose loop type holds "single", "double" or
\* "fore" in any case; under all it keeps every loop; a loop with an empty or
\* missing loop type is kept under all only
C26_LoopTypeFacet ==
    (out # Null /\ out.by = "filteredLoops") =>
        LET facet == out.value.loopType
            keep == {i \in DOMAIN raw.types :
                       facet = "all" \/ facet \in Typed[raw.types[i]].kept}
            kept == out.value.loops
        IN /\ {kept[j].id : j \in DOMAIN kept} = keep
           /\ Len(kept) = Cardinality(keep)
           /\ \A j, k \in DOMAIN kept : j < k => kept[j].id < kept[k].id

\* the double facet over a loop of type "DOUBLE bag" and a loop without a
\* type: the first is kept, the second is not
C26_Witness ==
    /\ out # Null /\ out.by = "filteredLoops"
    /\ out.value.loopType = "double"
    /\ raw.types = <<4, 9>>
    /\ Len(out.value.loops) = 1
    /\ out.value.loops[1].id = 1

\* no two entries of the cache share an id
UniqueIds(cache) ==
    \A i, j \in DOMAIN cache : cache[i].id = cache[j].id => i = j

\* C27: the store holds one row per id; whatever the order in which the
\* calls of refreshAll, saveLoop, updateLoopMileage, deleteLoop, saveExpense
\* and deleteExpense complete, no two entries of the loops cache share an id
\* and no two entries of the expenses cache share an id
C27_CacheIdsUnique ==
    /\ UniqueIds(loopsCache)
    /\ UniqueIds(expensesCache)

\* two calls are in flight, one of them a save or a mileage update that the
\* store has answered, over a cache that already holds two loops, one of
\* them the loop the call is about
C27_Witness ==
    /\ Len(loopsCache) >= 2
    /\ \E t, u \in Tasks :
          /\ t # u
          /\ calls[t].op \in {"saveLoop", "updateLoopMileage"}
          /\ calls[t].pc = "response"
          /\ ~calls[t].res.error
          /\ calls[t].arg.id \in Ids(loopsCache)
          /\ ~Free(u)

\* the add-loop workflow of task t, started from a form without an id,
\* reports its failure in this step: a call it awaits throws
NewLoopFails(t) ==
    /\ calls[t].chain = "onSave"
    /\ calls[t].op \in {"saveLoop", "updateLoopMileage", "refreshAll"}
    /\ calls[t].loc.form.id = 0
    /\ ThrowsNow(t)

\* C28: when the add-loop workflow of a new loop shows its failure alert,
\* the loop of that attempt is neither in the store nor in the cache
C28_FailedAddLeavesNoLoop ==
    [][\A t \in Tasks :
         NewLoopFails(t) =>
            /\ alerted' = "Failed to save loop. Please try again."
            /\ dbLoops'[calls[t].loc.loop.id] = Null
            /\ calls[t].loc.loop.id \notin Ids(loopsCache')]_vars

\* a failure of saveLoop itself leaves no loop of the attempt behind
C28_FailedSaveLeavesNoLoop ==
    [][\A t \in Tasks :
         (NewLoopFails(t) /\ calls[t].op = "saveLoop") =>
            /\ alerted' = "Failed to save loop. Please try again."
            /\ dbLoops'[calls[t].loc.loop.id] = Null
            /\ calls[t].loc.loop.id \notin Ids(loopsCache')]_vars

\* the call of task t takes a step
Steps(t) == calls'[t].pc # calls[t].pc

\* C29: a step of saveLoop, updateLoopMileage or deleteLoop leaves the
\* expenses cache and the settings cache as they are; a step of saveExpense
\* or deleteExpense leaves the loops cache and the settings cache as they
\* are; a step of saveSettings leaves the loops cache and the expenses cache
\* as they are; and a delete of an id the cache does not hold leaves that
\* cache as it is
C29_OwnCacheOnly ==
    [][\A t \in Tasks :
         Steps(t) =>
            /\ calls[t].op \in {"saveLoop", "updateLoopMileage", "deleteLoop"} =>
                  expensesCache' = expensesCache /\ settingsCache' = settingsCache
            /\ calls[t].op \in {"saveExpense", "deleteExpense"} =>
                  loopsCache' = loopsCache /\ settingsCache' = settingsCache
            /\ calls[t].op = "saveSettings" =>
                  loopsCache' = loopsCache /\ expensesCache' = expensesCache
            /\ (calls[t].op = "deleteLoop" /\ calls[t].arg.id \notin Ids(loopsCache)) =>
                  loopsCache' = loopsCache
            /\ (calls[t].op = "deleteExpense"
                  /\ calls[t].arg.id \notin Ids(expensesCache)) =>
                  expensesCache' = expensesCache]_vars

\* the store has answered a deleteLoop for an id the cache does not hold,
\* while the three caches are loaded
C29_Witness ==
    /\ loopsCache # <<>>
    /\ expensesCache # <<>>
    /\ settingsCache # Null
    /\ \E t \in Tasks :
          /\ calls[t].op = "deleteLoop"
          /\ calls[t].pc = "response"
          /\ ~calls[t].res.error
          /\ calls[t].arg.id \notin Ids(loopsCache)

====
